---- MODULE Spec2Model ----
(***************************************************************************)
(* Model of the data-access layer of the Ippolito web front-end            *)
(* (src/app/db.py): the order aggregator get_ordini_cliente, the order     *)
(* line fetcher get_articoli_ordine, their document-number formatting,     *)
(* and the client query builder get_clients.                               *)
(*                                                                         *)
(* Text is a sequence of one-character strings.  A Python / backend value  *)
(* is a record [t, n, s]: t is its type ("none", "int", "dec", "str",      *)
(* "date"), n its number (an int's value, a decimal's value in tenths, a   *)
(* date's year) and s its text.                                            *)
(***************************************************************************)
EXTENDS Integers, Sequences, FiniteSets, TLC

VARIABLES
    schema,       \* column types of tabfat02: [NUMDOC, Datdoc]
    tabfat02,     \* backend order lines (a bag: the stored order means nothing)
    piacon,       \* backend client records (a bag)
    OPERATORI,    \* backend operator records
    Config,       \* config.Config: DB_DRIVER, DB_LOGIN_TIMEOUT (environment texts)
    app_config,   \* current_app.config: DB_LOGIN_TIMEOUT
    drivers,      \* pyodbc.drivers(): the installed driver names
    server,       \* "up", "down" (connecting fails) or "failing" (executing fails)
    pc,           \* position of the running operation
    call,         \* the operation called and its arguments
    connection,   \* the connections of the running operation
    sql,          \* the statement executed: its text and its bound parameters
    rows,         \* cursor.fetchall(): the rows in the backend's result order
    idx,          \* index of the next row of the for loop
    orders_dict,  \* get_ordini_cliente's dict, as its (key, value) pairs in insertion order
    src,          \* for each fetched client row, the piacon record it was read from
    results,      \* the value the operation returns: a list, or <<value>> when it is not one
    exc,          \* the exception the operation raised, "none" if none
    session,      \* flask.session: the keys user, user_id, user_fullname (None when absent)
    request,      \* the request the front-end answered last
    user_record,  \* login's user_record: the operator fetched, None if none
    invoked,      \* the operations of the layer the request has invoked, in order
    response      \* the response to the request

\* The backend and the configuration: no operation writes them
env == <<schema, tabfat02, piacon, OPERATORI, Config, app_config, drivers, server>>

\* The web front-end: the session and the request being answered
web == <<session, request, user_record, invoked, response>>

vars == <<env, web, pc, call, connection, sql, rows, src, idx, orders_dict, results, exc>>

----------------------------------------------------------------------------
(* Bounds of the model *)

MaxRows == 3

----------------------------------------------------------------------------
(* Python values *)

PyNone == [t |-> "none", n |-> 0, s |-> <<>>]
PyInt(k) == [t |-> "int", n |-> k, s |-> <<>>]
PyDec(tenths) == [t |-> "dec", n |-> tenths, s |-> <<>>]
PyStr(chars) == [t |-> "str", n |-> 0, s |-> chars]
PyDate(year) == [t |-> "date", n |-> year, s |-> <<>>]

Digits == <<"0", "1", "2", "3", "4", "5", "6", "7", "8", "9">>

DigitChar(d) == Digits[d + 1]

IsDigit(c) == \E d \in 1..10 : Digits[d] = c

DigitVal(c) == (CHOOSE d \in 1..10 : Digits[d] = c) - 1

RECURSIVE DecStr(_)
\* str(int): the decimal digits, a leading "-" for a negative number
DecStr(k) ==
    IF k < 0 THEN <<"-">> \o DecStr(-k)
    ELSE IF k < 10 THEN <<DigitChar(k)>>
    ELSE DecStr(k \div 10) \o <<DigitChar(k % 10)>>

FirstN(s, k) == SubSeq(s, 1, IF Len(s) < k THEN Len(s) ELSE k)

LastN(s, k) == SubSeq(s, (IF Len(s) < k THEN 0 ELSE Len(s) - k) + 1, Len(s))

Zeros(k) == [j \in 1..k |-> "0"]

\* str.zfill(width): zeros on the left, after a leading sign
Zfill(s, width) ==
    IF Len(s) >= width THEN s
    ELSE IF Len(s) > 0 /\ s[1] \in {"+", "-"}
         THEN <<s[1]>> \o Zeros(width - Len(s)) \o Tail(s)
         ELSE Zeros(width - Len(s)) \o s

Abs(k) == IF k < 0 THEN -k ELSE k

\* str(Decimal) of a value with one fractional digit
DecimalStr(tenths) ==
    (IF tenths < 0 THEN <<"-">> ELSE <<>>)
        \o DecStr(Abs(tenths) \div 10) \o <<".">> \o <<DigitChar(Abs(tenths) % 10)>>

\* str(date): ISO format; the model keeps the year of a date only
DateStr(year) == Zfill(DecStr(year), 4) \o <<"-", "0", "1", "-", "0", "1">>

\* Python str(value)
Str(v) ==
    CASE v.t = "none" -> <<"N", "o", "n", "e">>
      [] v.t = "int" -> DecStr(v.n)
      [] v.t = "dec" -> DecimalStr(v.n)
      [] v.t = "str" -> v.s
      [] v.t = "date" -> DateStr(v.n)

\* Python truth value: None, 0, Decimal(0) and "" are false
Truthy(v) ==
    CASE v.t = "none" -> FALSE
      [] v.t = "int" -> v.n # 0
      [] v.t = "dec" -> v.n # 0
      [] v.t = "str" -> v.s # <<>>
      [] v.t = "date" -> TRUE

RECURSIVE StripLeft(_)
StripLeft(s) == IF s # <<>> /\ s[1] = " " THEN StripLeft(Tail(s)) ELSE s

RECURSIVE StripRight(_)
StripRight(s) ==
    IF s # <<>> /\ s[Len(s)] = " " THEN StripRight(SubSeq(s, 1, Len(s) - 1)) ELSE s

\* str.strip()
Strip(s) == StripRight(StripLeft(s))

RECURSIVE DigitsVal(_)
DigitsVal(s) ==
    IF s = <<>> THEN 0 ELSE 10 * DigitsVal(SubSeq(s, 1, Len(s) - 1)) + DigitVal(s[Len(s)])

AllDigits(s) == s # <<>> /\ \A j \in 1..Len(s) : IsDigit(s[j])

Ok(k) == [exc |-> "none", n |-> k]

Raise(name) == [exc |-> name, n |-> 0]

\* int(text): blanks stripped, an optional sign, then digits only; else ValueError
ParseInt(s) ==
    LET t == Strip(s)
        signed == t # <<>> /\ t[1] \in {"+", "-"}
        body == IF signed THEN Tail(t) ELSE t
    IN  IF AllDigits(body)
        THEN Ok(IF signed /\ t[1] = "-" THEN -DigitsVal(body) ELSE DigitsVal(body))
        ELSE Raise("ValueError")

\* Python int(value): an int is itself, a Decimal is truncated towards zero,
\* a text is parsed, anything else is a TypeError
IntOf(v) ==
    CASE v.t = "int" -> Ok(v.n)
      [] v.t = "dec" -> Ok(IF v.n < 0 THEN -(Abs(v.n) \div 10) ELSE v.n \div 10)
      [] v.t = "str" -> ParseInt(v.s)
      [] OTHER -> Raise("TypeError")

\* hasattr(datdoc, 'year')
HasYear(v) == v.t = "date"

----------------------------------------------------------------------------
(* Document-number formatting *)

\* Mutant: the handler catches AttributeError only
FormatCaughtAttributeOnly == {"AttributeError"}

\* except (ValueError, AttributeError)
FormatCaught == {"ValueError", "AttributeError"}

Formatted(text) == [exc |-> "none", s |-> text]

FormatRaised(name) == [exc |-> name, s |-> <<>>]

\* Mutant: the fallback is str(numdoc_raw) without the truth test
FormatFallbackNoTruthTest(numdoc_raw) == Str(numdoc_raw)

\* str(numdoc_raw) if numdoc_raw else ""
FormatFallback(numdoc_raw) == IF Truthy(numdoc_raw) THEN Str(numdoc_raw) ELSE <<>>

\* Mutant: the century is taken instead of the year within it
YearSuffixCentury(datdoc) ==
    IF HasYear(datdoc) THEN FirstN(DecStr(datdoc.n), 2)
    ELSE IF Len(Str(datdoc)) >= 4 THEN FirstN(Str(datdoc), 2)
    ELSE <<"0", "0">>

\* the year_suffix expression of the try block
YearSuffix(datdoc) ==
    IF HasYear(datdoc) THEN LastN(DecStr(datdoc.n), 2)
    ELSE IF Len(Str(datdoc)) >= 4 THEN LastN(FirstN(Str(datdoc), 4), 2)
    ELSE <<"0", "0">>

\* numdoc_formatted as get_ordini_cliente computes it for one row
FormatNumdocOrdini(datdoc, numdoc_raw) ==
    IF Truthy(datdoc) /\ numdoc_raw.t # "none"
    THEN LET year_suffix == YearSuffix(datdoc)
             parsed == IntOf(numdoc_raw)
         IN  IF parsed.exc = "none"
             THEN Formatted(year_suffix \o Zfill(DecStr(parsed.n), 4))
             ELSE IF parsed.exc \in FormatCaught
                  THEN Formatted(FormatFallback(numdoc_raw))
                  ELSE FormatRaised(parsed.exc)
    ELSE Formatted(FormatFallback(numdoc_raw))

\* numdoc_formatted as get_articoli_ordine computes it for one row
FormatNumdocArticoli(datdoc, numdoc_raw_val) ==
    IF Truthy(datdoc) /\ numdoc_raw_val.t # "none"
    THEN LET year_suffix ==
                 IF HasYear(datdoc) THEN LastN(DecStr(datdoc.n), 2)
                 ELSE IF Len(Str(datdoc)) >= 4 THEN LastN(FirstN(Str(datdoc), 4), 2)
                 ELSE <<"0", "0">>
             parsed == IntOf(numdoc_raw_val)
         IN  IF parsed.exc = "none"
             THEN Formatted(year_suffix \o Zfill(DecStr(parsed.n), 4))
             ELSE IF parsed.exc \in {"ValueError", "AttributeError"}
                  THEN Formatted(IF Truthy(numdoc_raw_val) THEN Str(numdoc_raw_val) ELSE <<>>)
                  ELSE FormatRaised(parsed.exc)
    ELSE Formatted(IF Truthy(numdoc_raw_val) THEN Str(numdoc_raw_val) ELSE <<>>)

\* Mutant: the column is stored as it was fetched
CoalesceNothing(v) == v

\* rec[k] if rec[k] else ""
Coalesce(v) == IF Truthy(v) THEN v ELSE PyStr(<<>>)

----------------------------------------------------------------------------
(* The backend: SQL comparison under the store's collation *)

\* The characters of the model in collation order (case is not modelled)
Alphabet ==
    <<" ", "!", "%", "-", ".", "/", "_",
      "0", "1", "2", "3", "4", "5", "6", "7", "8", "9",
      "C", "F", "N", "O", "T", "a", "b", "c", "d", "e", "n", "o", "p", "x", "y">>

CharRank(c) == CHOOSE k \in 1..Len(Alphabet) : Alphabet[k] = c

PadTo(s, k) == s \o [j \in 1..(k - Len(s)) |-> " "]

Max(a, b) == IF a < b THEN b ELSE a

\* a < b for two texts: the shorter one is padded with blanks, then the
\* first differing character decides
SqlStrLess(a, b) ==
    LET w == Max(Len(a), Len(b))
        x == PadTo(a, w)
        y == PadTo(b, w)
    IN  \E k \in 1..w :
            /\ CharRank(x[k]) < CharRank(y[k])
            /\ \A j \in 1..(k - 1) : x[j] = y[j]

\* a = b for two texts: trailing blanks do not count
SqlStrEq(a, b) == StripRight(a) = StripRight(b)

\* a <= b as ORDER BY sees two values of one column: NULL sorts lowest
SqlLeq(a, b) ==
    CASE a.t = "none" -> TRUE
      [] b.t = "none" -> FALSE
      [] a.t = "str" -> ~SqlStrLess(b.s, a.s)
      [] OTHER -> a.n <= b.n

\* The orders in which the backend may deliver rows with the given sort keys
\* under ORDER BY: every permutation that respects the keys, ties either way
Orderings(keys, descending) ==
    {p \in [1..Len(keys) -> 1..Len(keys)] :
        /\ \A i, j \in 1..Len(keys) : i # j => p[i] # p[j]
        /\ \A i \in 1..(Len(keys) - 1) :
              IF descending THEN SqlLeq(keys[p[i + 1]], keys[p[i]])
              ELSE SqlLeq(keys[p[i]], keys[p[i + 1]])}

\* The article catalog: CODART -> DESART (the description of "y" is NULL,
\* that of "z" is empty)
ARTICOLI ==
    <<[CODART |-> <<"x">>, DESART |-> PyStr(<<"d", "x">>)],
      [CODART |-> <<"y">>, DESART |-> PyNone],
      [CODART |-> <<"z">>, DESART |-> PyStr(<<>>)]>>

\* tabfat02 INNER JOIN ARTICOLI ON CODART, projected on the five selected
\* columns: rec[0..4] of the code are rec[1..5] here
JoinArticoli(r) ==
    LET hits == SelectSeq(ARTICOLI, LAMBDA a : r.CODART.t = "str" /\ SqlStrEq(a.CODART, r.CODART.s))
    IN  [k \in 1..Len(hits) |->
            <<r.NUMDOC, r.Datdoc, r.PraticaNumero, r.CODART, hits[k].DESART>>]

RECURSIVE Flatten(_)
Flatten(ss) == IF ss = <<>> THEN <<>> ELSE ss[1] \o Flatten(Tail(ss))

\* WHERE tipdoc = 'OC' AND codcf = ?  of both order queries
OrderWhere(r, codcf) == SqlStrEq(r.tipdoc, <<"O", "C">>) /\ SqlStrEq(r.codcf, codcf)

\* The result sets the backend may deliver for get_ordini_cliente's query:
\* the matching joined rows, ORDER BY Datdoc DESC
QueryOrdini(codcf) ==
    LET kept == SelectSeq(tabfat02, LAMBDA r : OrderWhere(r, codcf))
        joined == Flatten([k \in 1..Len(kept) |-> JoinArticoli(kept[k])])
        n == Len(joined)
    IN  {[k \in 1..n |-> joined[p[k]]] :
            p \in Orderings([k \in 1..n |-> joined[k][2]], TRUE)}

\* The backend's implicit conversion of a text parameter to an integer
\* column's type: blanks stripped, '' is 0, an optional sign, digits only
SqlToInt(s) ==
    LET t == Strip(s)
        signed == t # <<>> /\ t[1] \in {"+", "-"}
        body == IF signed THEN Tail(t) ELSE t
    IN  IF t = <<>> THEN Ok(0)
        ELSE IF AllDigits(body)
             THEN Ok(IF signed /\ t[1] = "-" THEN -DigitsVal(body) ELSE DigitsVal(body))
             ELSE Raise("pyodbc.Error")

\* The same for a decimal column with one fractional digit (value in tenths)
SqlToDec(s) ==
    LET t == Strip(s)
        signed == t # <<>> /\ t[1] \in {"+", "-"}
        body == IF signed THEN Tail(t) ELSE t
        dot == IF \E k \in 1..Len(body) : body[k] = "."
               THEN CHOOSE k \in 1..Len(body) : body[k] = "." ELSE Len(body) + 1
        whole == SubSeq(body, 1, dot - 1)
        frac == SubSeq(body, dot + 1, Len(body))
        tenths == 10 * DigitsVal(whole) + (IF frac = <<>> THEN 0 ELSE DigitVal(frac[1]))
    IN  IF AllDigits(whole) /\ (frac = <<>> \/ AllDigits(frac)) /\ Len(frac) <= 1
        THEN Ok(IF signed /\ t[1] = "-" THEN -tenths ELSE tenths)
        ELSE Raise("pyodbc.Error")

\* The text parameter of  NUMDOC = ?  converted to the column's type
NumdocParam(numdoc_raw) ==
    CASE schema.NUMDOC = "int" -> SqlToInt(numdoc_raw)
      [] schema.NUMDOC = "dec" -> SqlToDec(numdoc_raw)
      [] OTHER -> Ok(0)

\* tabfat02.NUMDOC = ?  for one row: never true of a NULL
NumdocEq(v, numdoc_raw) ==
    CASE v.t = "none" -> FALSE
      [] v.t = "str" -> SqlStrEq(v.s, numdoc_raw)
      [] OTHER -> v.n = NumdocParam(numdoc_raw).n

\* The outcome of get_articoli_ordine's query: a conversion error of the
\* parameter, or the result sets the backend may deliver (the matching joined
\* rows, ORDER BY PraticaNumero)
QueryArticoli(codcf, numdoc_raw) ==
    LET kept == SelectSeq(tabfat02,
                    LAMBDA r : OrderWhere(r, codcf) /\ NumdocEq(r.NUMDOC, numdoc_raw))
        joined == Flatten([k \in 1..Len(kept) |-> JoinArticoli(kept[k])])
        n == Len(joined)
    IN  [exc |-> NumdocParam(numdoc_raw).exc,
         sets |-> {[k \in 1..n |-> joined[p[k]]] :
                     p \in Orderings([k \in 1..n |-> joined[k][3]], FALSE)}]

----------------------------------------------------------------------------
(* The connection provisioner *)

PREFERRED_DRIVERS ==
    <<<<"O", "D", "B", "C", " ", "D", "r", "i", "v", "e", "r", " ", "1", "8", " ",
        "f", "o", "r", " ", "S", "Q", "L", " ", "S", "e", "r", "v", "e", "r">>,
      <<"O", "D", "B", "C", " ", "D", "r", "i", "v", "e", "r", " ", "1", "7", " ",
        "f", "o", "r", " ", "S", "Q", "L", " ", "S", "e", "r", "v", "e", "r">>,
      <<"S", "Q", "L", " ", "S", "e", "r", "v", "e", "r">>>>

\* _sanitize_driver_name
sanitize_driver_name(name) == Strip(name)

\* _available_drivers: the sanitized names of pyodbc.drivers()
available_drivers == {sanitize_driver_name(driver) : driver \in drivers}

Resolved(driver) == [exc |-> "none", driver |-> driver]

NoDriver == [exc |-> "RuntimeError", driver |-> <<>>]

\* Mutant: the configured name is returned without looking at the installed set
resolve_driver_unvalidated ==
    LET configured == IF Config.DB_DRIVER # <<>>
                      THEN sanitize_driver_name(Config.DB_DRIVER) ELSE <<>>
        available == available_drivers
    IN  IF configured # <<>>
        THEN Resolved(configured)
        ELSE IF \E k \in 1..Len(PREFERRED_DRIVERS) : PREFERRED_DRIVERS[k] \in available
             THEN Resolved(PREFERRED_DRIVERS[
                      CHOOSE k \in 1..Len(PREFERRED_DRIVERS) :
                          /\ PREFERRED_DRIVERS[k] \in available
                          /\ \A j \in 1..(k - 1) : PREFERRED_DRIVERS[j] \notin available])
             ELSE NoDriver

\* _resolve_driver
resolve_driver ==
    LET configured == IF Config.DB_DRIVER # <<>>
                      THEN sanitize_driver_name(Config.DB_DRIVER) ELSE <<>>
        available == available_drivers
    IN  IF configured # <<>> /\ configured \in available
        THEN Resolved(configured)
        ELSE IF \E k \in 1..Len(PREFERRED_DRIVERS) : PREFERRED_DRIVERS[k] \in available
             THEN Resolved(PREFERRED_DRIVERS[
                      CHOOSE k \in 1..Len(PREFERRED_DRIVERS) :
                          /\ PREFERRED_DRIVERS[k] \in available
                          /\ \A j \in 1..(k - 1) : PREFERRED_DRIVERS[j] \notin available])
             ELSE NoDriver

\* except (TypeError, ValueError)  of _coerce_timeout
CoerceCaught == {"TypeError", "ValueError"}

\* _coerce_timeout(value, fallback)
coerce_timeout(value, fallback) ==
    IF value.t = "none" THEN Ok(fallback)
    ELSE LET parsed == IntOf(value)
         IN  IF parsed.exc = "none" THEN Ok(parsed.n)
             ELSE IF parsed.exc \in CoerceCaught THEN Ok(fallback)
             ELSE Raise(parsed.exc)

\* The default of _coerce_timeout's fallback parameter
DefaultTimeout == 5

\* The outcome of get_connection(timeout): the timeout is coerced, the driver
\* resolved, and pyodbc.connect called, which fails when the server is down
get_connection(timeout) ==
    LET inner == coerce_timeout(Config.DB_LOGIN_TIMEOUT, DefaultTimeout)
        timeout_value == IF inner.exc = "none" THEN coerce_timeout(timeout, inner.n) ELSE inner
        driver == resolve_driver
    IN  IF timeout_value.exc # "none"
        THEN [exc |-> timeout_value.exc, attempted |-> FALSE, driver |-> <<>>, timeout |-> 0]
        ELSE IF driver.exc # "none"
        THEN [exc |-> driver.exc, attempted |-> FALSE, driver |-> <<>>, timeout |-> 0]
        ELSE [exc |-> IF server = "down" THEN "pyodbc.Error" ELSE "none",
              attempted |-> TRUE, driver |-> driver.driver, timeout |-> timeout_value.n]

\* get_configured_connection(): the timeout of the Flask app's config
get_configured_connection == get_connection(app_config.DB_LOGIN_TIMEOUT)

\* No connection attempted
NoConnection == [attempts |-> 0, opened |-> 0, open |-> 0, driver |-> <<>>, timeout |-> 0]

\* The connections of the running operation after get_connection's outcome c
Connected(c) ==
    [attempts |-> IF c.attempted THEN 1 ELSE 0,
     opened |-> IF c.exc = "none" THEN 1 ELSE 0,
     open |-> IF c.exc = "none" THEN 1 ELSE 0,
     driver |-> c.driver, timeout |-> c.timeout]

\* The with block is left by a return: Connection.__exit__ commits and does
\* not close; the frame is destroyed at the return, its connection loses its
\* last reference and is closed by its destructor
ExitByReturn(conn) == [conn EXCEPT !.open = 0]

\* The with block is left by an exception: Connection.__exit__ rolls back
\* and does not close; the traceback of the exception in flight holds the
\* frame and its connection
ExitByRaise(conn) == conn

----------------------------------------------------------------------------
(* The operations *)

NoCall ==
    [op |-> "none", codcf |-> <<>>, numdoc_raw |-> <<>>, filtro_mastro |-> PyNone,
     mostra_disattivati |-> FALSE, pattern_ricerca |-> PyNone, match_anywhere |-> FALSE,
     rifconto |-> <<>>, username |-> <<>>]

\* Position of key in the dict's insertion order, 0 when absent
KeyIndex(d, key) ==
    IF \E k \in 1..Len(d) : d[k].key = key
    THEN CHOOSE k \in 1..Len(d) : d[k].key = key
    ELSE 0

\* key = str(numdoc_raw)
GroupKey(numdoc_raw) == Str(numdoc_raw)

\* The entry created for the first row of a key
NewSummary(rec, numdoc_formatted) ==
    [numdoc |-> numdoc_formatted,
     numdoc_raw |-> rec[1],
     datdoc |-> rec[2],
     pratica_numero |-> Coalesce(rec[3]),
     codart |-> Coalesce(rec[4]),
     desart |-> Coalesce(rec[5]),
     num_articoli |-> 1]

\* Mutant: a row of a key already seen is dropped without being counted
GroupRowNoCount(d, rec, numdoc_formatted) ==
    LET key == Str(rec[1])
    IN  IF KeyIndex(d, key) = 0
        THEN Append(d, [key |-> key, val |-> NewSummary(rec, numdoc_formatted)])
        ELSE d

\* Mutant: a row of a key already seen overwrites the summary (last row wins)
GroupRowLastWins(d, rec, numdoc_formatted) ==
    LET key == Str(rec[1])
        at == KeyIndex(d, key)
    IN  IF at = 0
        THEN Append(d, [key |-> key, val |-> NewSummary(rec, numdoc_formatted)])
        ELSE [d EXCEPT ![at].val =
                 [NewSummary(rec, numdoc_formatted) EXCEPT !.num_articoli = d[at].val.num_articoli + 1]]

\* Mutant: the rows are grouped by their formatted document number
GroupRowByFormatted(d, rec, numdoc_formatted) ==
    LET key == numdoc_formatted
        at == KeyIndex(d, key)
    IN  IF at = 0
        THEN Append(d, [key |-> key, val |-> NewSummary(rec, numdoc_formatted)])
        ELSE [d EXCEPT ![at].val.num_articoli = @ + 1]

\* orders_dict after the loop body has run for rec
GroupRow(d, rec, numdoc_formatted) ==
    LET key == GroupKey(rec[1])
        at == KeyIndex(d, key)
    IN  IF at = 0
        THEN Append(d, [key |-> key, val |-> NewSummary(rec, numdoc_formatted)])
        ELSE [d EXCEPT ![at].val.num_articoli = @ + 1]

\* Mutant: the summaries come out newest key first
DictValuesReversed(d) == [k \in 1..Len(d) |-> d[Len(d) + 1 - k].val]

\* list(orders_dict.values())
DictValues(d) == [k \in 1..Len(d) |-> d[k].val]

\* Mutant: the record of a row carries the description of no article
LineItemNoDescription(rec, numdoc_formatted) ==
    [numdoc |-> numdoc_formatted,
     numdoc_raw |-> rec[1],
     datdoc |-> rec[2],
     pratica_numero |-> Coalesce(rec[3]),
     codart |-> Coalesce(rec[4]),
     desart |-> PyStr(<<>>)]

\* The record get_articoli_ordine appends for one row
LineItem(rec, numdoc_formatted) ==
    [numdoc |-> numdoc_formatted,
     numdoc_raw |-> rec[1],
     datdoc |-> rec[2],
     pratica_numero |-> Coalesce(rec[3]),
     codart |-> Coalesce(rec[4]),
     desart |-> Coalesce(rec[5])]

Codcfs == {<<"c", "1">>, <<"c", "2">>}

\* No statement executed
NoStatement == [text |-> <<>>, params |-> <<>>]

\* The statement get_ordini_cliente executes: the query text and the bound
\* parameters
OrdiniStatement(codcf) ==
    [text |-> <<"SELECT tabfat02.NUMDOC, tabfat02.Datdoc, tabfat02.PraticaNumero, tabfat02.CODART, ARTICOLI.DESART FROM tabfat02 INNER JOIN ARTICOLI ON tabfat02.CODART = ARTICOLI.CODART WHERE tabfat02.tipdoc = 'OC' AND tabfat02.codcf = ? ORDER BY tabfat02.Datdoc DESC">>,
     params |-> <<codcf>>]

\* The statement get_articoli_ordine executes
ArticoliStatement(codcf, numdoc_raw) ==
    [text |-> <<"SELECT tabfat02.NUMDOC, tabfat02.Datdoc, tabfat02.PraticaNumero, tabfat02.CODART, ARTICOLI.DESART FROM tabfat02 INNER JOIN ARTICOLI ON tabfat02.CODART = ARTICOLI.CODART WHERE tabfat02.tipdoc = 'OC' AND tabfat02.codcf = ? AND tabfat02.NUMDOC = ? ORDER BY tabfat02.PraticaNumero">>,
     params |-> <<codcf, numdoc_raw>>]

\* The statement get_cliente_nome executes
ClienteNomeStatement(rifconto) ==
    [text |-> <<"SELECT CONCAT(Ragsoc, ' ', denominazione) AS NomeCliente FROM piacon WHERE Rifconto = ?">>,
     params |-> <<rifconto>>]

\* The statement fetch_user_by_username executes
UserStatement(username) ==
    [text |-> <<"SELECT ID, Nome, PASSWORD2005 AS Password ", "FROM dbo.OPERATORI WHERE Nome = ?">>,
     params |-> <<username>>]

\* cursor.execute(query, codcf); cursor.fetchall()
get_ordini_cliente_execute ==
    /\ pc = "idle"
    /\ \E codcf \in Codcfs :
        LET c == get_configured_connection
        IN  /\ call' = [NoCall EXCEPT !.op = "get_ordini_cliente", !.codcf = codcf]
            /\ IF c.exc # "none"
               THEN /\ connection' = Connected(c)
                    /\ sql' = NoStatement
                    /\ rows' = <<>>
                    /\ pc' = "raised"
                    /\ exc' = c.exc
               ELSE /\ sql' = OrdiniStatement(codcf)
                    /\ IF server = "failing"
                       THEN /\ connection' = ExitByRaise(Connected(c))
                            /\ rows' = <<>>
                            /\ pc' = "raised"
                            /\ exc' = "pyodbc.Error"
                       ELSE /\ connection' = Connected(c)
                            /\ \E fetched \in QueryOrdini(codcf) : rows' = fetched
                            /\ pc' = "ordini_loop"
                            /\ exc' = exc
    /\ idx' = 1
    /\ orders_dict' = <<>>
    /\ results' = <<>>
    /\ UNCHANGED <<web, src, env>>

\* one iteration of  for rec in cursor.fetchall()
get_ordini_cliente_row ==
    /\ pc = "ordini_loop"
    /\ idx <= Len(rows)
    /\ LET rec == rows[idx]
           fmt == FormatNumdocOrdini(rec[2], rec[1])
       IN  IF fmt.exc = "none"
           THEN /\ orders_dict' = GroupRow(orders_dict, rec, fmt.s)
                /\ idx' = idx + 1
                /\ UNCHANGED <<pc, exc, connection>>
           ELSE /\ pc' = "raised"
                /\ exc' = fmt.exc
                /\ connection' = ExitByRaise(connection)
                /\ UNCHANGED <<orders_dict, idx>>
    /\ UNCHANGED <<web, src, env, call, sql, rows, results>>

\* results = list(orders_dict.values()); return results
get_ordini_cliente_return ==
    /\ pc = "ordini_loop"
    /\ idx > Len(rows)
    /\ results' = DictValues(orders_dict)
    /\ connection' = ExitByReturn(connection)
    /\ pc' = "returned"
    /\ UNCHANGED <<web, src, env, call, sql, rows, idx, orders_dict, exc>>

\* The raw document numbers a caller asks for: the string form of a number
\* of the table, as the route receives it from the link of a summary
ArticoliParams == {Str(tabfat02[k].NUMDOC) : k \in 1..Len(tabfat02)}

\* cursor.execute(query, (codcf, numdoc_raw)); cursor.fetchall()
get_articoli_ordine_execute ==
    /\ pc = "idle"
    /\ \E codcf \in Codcfs, numdoc_raw \in ArticoliParams :
        LET c == get_configured_connection
            q == QueryArticoli(codcf, numdoc_raw)
        IN  /\ call' = [NoCall EXCEPT !.op = "get_articoli_ordine", !.codcf = codcf,
                                      !.numdoc_raw = numdoc_raw]
            /\ IF c.exc # "none"
               THEN /\ connection' = Connected(c)
                    /\ sql' = NoStatement
                    /\ rows' = <<>>
                    /\ pc' = "raised"
                    /\ exc' = c.exc
               ELSE /\ sql' = ArticoliStatement(codcf, numdoc_raw)
                    /\ IF server = "failing" \/ q.exc # "none"
                       THEN /\ connection' = ExitByRaise(Connected(c))
                            /\ rows' = <<>>
                            /\ pc' = "raised"
                            /\ exc' = "pyodbc.Error"
                       ELSE /\ connection' = Connected(c)
                            /\ \E fetched \in q.sets : rows' = fetched
                            /\ pc' = "articoli_loop"
                            /\ exc' = exc
    /\ idx' = 1
    /\ orders_dict' = <<>>
    /\ results' = <<>>
    /\ UNCHANGED <<web, src, env>>

\* one iteration of  for rec in cursor.fetchall()
get_articoli_ordine_row ==
    /\ pc = "articoli_loop"
    /\ idx <= Len(rows)
    /\ LET rec == rows[idx]
           fmt == FormatNumdocArticoli(rec[2], rec[1])
       IN  IF fmt.exc = "none"
           THEN /\ results' = Append(results, LineItem(rec, fmt.s))
                /\ idx' = idx + 1
                /\ UNCHANGED <<pc, exc, connection>>
           ELSE /\ pc' = "raised"
                /\ exc' = fmt.exc
                /\ connection' = ExitByRaise(connection)
                /\ UNCHANGED <<results, idx>>
    /\ UNCHANGED <<web, src, env, call, sql, rows, orders_dict>>

\* return results
get_articoli_ordine_return ==
    /\ pc = "articoli_loop"
    /\ idx > Len(rows)
    /\ connection' = ExitByReturn(connection)
    /\ pc' = "returned"
    /\ UNCHANGED <<web, src, env, call, sql, rows, idx, orders_dict, results, exc>>

\* The caller has consumed the result, or handled the error and dropped the
\* exception with its traceback: the next request starts
NextRequest ==
    /\ pc \in {"returned", "raised"}
    /\ pc' = "idle"
    /\ call' = NoCall
    /\ connection' = NoConnection
    /\ sql' = NoStatement
    /\ rows' = <<>>
    /\ idx' = 1
    /\ orders_dict' = <<>>
    /\ results' = <<>>
    /\ exc' = "none"
    /\ src' = <<>>
    /\ UNCHANGED <<web, env>>

----------------------------------------------------------------------------
(* The backend states the model starts from *)

\* The document numbers of a NUMDOC column of type t.  In a text column the
\* text 'None' and a NULL are two different values.
NumdocDomain(t) ==
    IF t = "int"
    THEN <<PyInt(441), PyInt(442), PyNone>>
    ELSE <<PyStr(<<"N", "o", "n", "e">>), PyNone>>

DatdocDomain == <<PyDate(2024), PyDate(2023)>>

\* The other columns of an order line: two order lines of client c1 that
\* differ in every text column, and a line of another document type (client
\* c2 has no lines)
LineVariants ==
    <<[codcf |-> <<"c", "1">>, tipdoc |-> <<"O", "C">>,
       PraticaNumero |-> PyStr(<<"p", "1">>), CODART |-> PyStr(<<"x">>)],
      [codcf |-> <<"c", "1">>, tipdoc |-> <<"O", "C">>,
       PraticaNumero |-> PyNone, CODART |-> PyStr(<<"y">>)],
      [codcf |-> <<"c", "1">>, tipdoc |-> <<"F", "T">>,
       PraticaNumero |-> PyStr(<<"p", "1">>), CODART |-> PyStr(<<"x">>)]>>

Line(numdoc, datdoc, variant) ==
    [codcf |-> variant.codcf, tipdoc |-> variant.tipdoc, NUMDOC |-> numdoc,
     Datdoc |-> datdoc, PraticaNumero |-> variant.PraticaNumero, CODART |-> variant.CODART]

LineCodes(t) == 1..(Len(NumdocDomain(t)) * Len(DatdocDomain) * Len(LineVariants))

\* The c-th line of the domain of a NUMDOC column of type t
LineOf(t, c) ==
    LET v == (c - 1) % Len(LineVariants)
        d == ((c - 1) \div Len(LineVariants)) % Len(DatdocDomain)
        m == (c - 1) \div (Len(LineVariants) * Len(DatdocDomain))
    IN  Line(NumdocDomain(t)[m + 1], DatdocDomain[d + 1], LineVariants[v + 1])

\* Every bag of at most MaxRows lines, each written once (in code order)
Tables(t) ==
    UNION {{[k \in 1..n |-> LineOf(t, f[k])] :
              f \in {g \in [1..n -> LineCodes(t)] : \A k \in 1..(n - 1) : g[k] <= g[k + 1]}} :
           n \in 0..MaxRows}

\* A session with no key set: session.get(key) is None
EmptySession == [user |-> PyNone, user_id |-> PyNone, user_fullname |-> PyNone]

NoRequest ==
    [route |-> "none", method |-> "GET", username |-> <<>>, password |-> <<>>,
     q |-> <<>>, rifconto |-> <<>>, numdoc_raw |-> <<>>]

NoResponse == [kind |-> "none", target |-> "", status |-> 0]

\* No request answered yet, nobody logged in
NoVisit ==
    /\ session = EmptySession
    /\ request = NoRequest
    /\ user_record = PyNone
    /\ invoked = <<>>
    /\ response = NoResponse

Idle ==
    /\ NoVisit
    /\ pc = "idle"
    /\ call = NoCall
    /\ connection = NoConnection
    /\ sql = NoStatement
    /\ rows = <<>>
    /\ src = <<>>
    /\ idx = 1
    /\ orders_dict = <<>>
    /\ results = <<>>
    /\ exc = "none"

\* config.py with no environment set: no driver configured, a login timeout
\* of "5"
DefaultConfig == [DB_DRIVER |-> <<>>, DB_LOGIN_TIMEOUT |-> PyStr(<<"5">>)]

\* app.config.from_object(Config)
FromObject(config) == [DB_LOGIN_TIMEOUT |-> config.DB_LOGIN_TIMEOUT]

\* A default configuration, a preferred driver installed, the server up
Healthy ==
    /\ Config = DefaultConfig
    /\ app_config = FromObject(DefaultConfig)
    /\ drivers = {PREFERRED_DRIVERS[1]}
    /\ server = "up"

Init ==
    /\ schema \in {[NUMDOC |-> "int", Datdoc |-> "date"], [NUMDOC |-> "str", Datdoc |-> "date"]}
    /\ tabfat02 \in Tables(schema.NUMDOC)
    /\ piacon = <<>>
    /\ OPERATORI = <<>>
    /\ Healthy
    /\ Idle

Next ==
    \/ get_ordini_cliente_execute
    \/ get_ordini_cliente_row
    \/ get_ordini_cliente_return
    \/ get_articoli_ordine_execute
    \/ get_articoli_ordine_row
    \/ get_articoli_ordine_return
    \/ NextRequest

Spec == Init /\ [][Next]_vars

----------------------------------------------------------------------------
(* Order aggregation: claims C1, C2, C3 *)

OrdiniReturned == pc = "returned" /\ call.op = "get_ordini_cliente"

RECURSIVE SumOf(_, _)
SumOf(f, n) == IF n = 0 THEN 0 ELSE f[n] + SumOf(f, n - 1)

\* The first scanned row whose raw document number has the string form key
FirstRow(key) == CHOOSE j \in 1..Len(rows) :
    /\ Str(rows[j][1]) = key
    /\ \A i \in 1..(j - 1) : Str(rows[i][1]) # key

\* C1 as stated: one summary per distinct raw document number of the fetched
\* rows, each counting the rows that carry that raw document number
C1_PerRawNumber ==
    OrdiniReturned =>
        /\ {results[k].numdoc_raw : k \in 1..Len(results)} = {rows[j][1] : j \in 1..Len(rows)}
        /\ Len(results) = Cardinality({rows[j][1] : j \in 1..Len(rows)})
        /\ \A k \in 1..Len(results) :
              results[k].num_articoli =
                  Cardinality({j \in 1..Len(rows) : rows[j][1] = results[k].numdoc_raw})

\* C1 (amended): get_ordini_cliente returns exactly one summary per distinct
\* string form str(raw document number) of the fetched rows; each summary's
\* num_articoli is the number of rows whose raw number has that string form,
\* so it is >= 1 and the counts sum to the number of rows.
C1_PerStringForm ==
    OrdiniReturned =>
        /\ {Str(results[k].numdoc_raw) : k \in 1..Len(results)}
               = {Str(rows[j][1]) : j \in 1..Len(rows)}
        /\ Len(results) = Cardinality({Str(rows[j][1]) : j \in 1..Len(rows)})
        /\ \A k \in 1..Len(results) :
              /\ results[k].num_articoli =
                     Cardinality({j \in 1..Len(rows) :
                                     Str(rows[j][1]) = Str(results[k].numdoc_raw)})
              /\ results[k].num_articoli >= 1
        /\ SumOf([k \in 1..Len(results) |-> results[k].num_articoli], Len(results)) = Len(rows)

\* C1 witness: a listing of two summaries, one of them collapsing several rows
C1_Witness ==
    /\ OrdiniReturned
    /\ Len(results) = 2
    /\ \E k \in 1..2 : results[k].num_articoli >= 2

\* The fields of a summary other than its count
SummaryFields(v) ==
    <<v.numdoc, v.numdoc_raw, v.datdoc, v.pratica_numero, v.codart, v.desart>>

\* The same fields as the code derives them from one row
RowFields(rec) ==
    <<FormatNumdocOrdini(rec[2], rec[1]).s, rec[1], rec[2],
      Coalesce(rec[3]), Coalesce(rec[4]), Coalesce(rec[5])>>

\* Every summary, in the dict and in the returned list, has the fields of the
\* first scanned row of its key
C2_FirstRowFields ==
    /\ \A k \in 1..Len(orders_dict) :
          SummaryFields(orders_dict[k].val) = RowFields(rows[FirstRow(orders_dict[k].key)])
    /\ OrdiniReturned =>
          \A k \in 1..Len(results) :
              SummaryFields(results[k]) = RowFields(rows[FirstRow(Str(results[k].numdoc_raw))])

\* A step of the loop over a row whose key is already in the dict
C2_SeenStep ==
    /\ pc = "ordini_loop"
    /\ idx <= Len(rows)
    /\ idx' = idx + 1
    /\ \E k \in 1..Len(orders_dict) : orders_dict[k].key = Str(rows[idx][1])

\* C2: in get_ordini_cliente a row whose grouping key was already seen changes
\* only num_articoli of the existing summary, by one; the other fields of
\* every summary are those of the first row scanned for its key, whatever
\* rows follow.
C2_SeenRowOnlyCounts ==
    /\ []C2_FirstRowFields
    /\ [][C2_SeenStep =>
            /\ Len(orders_dict') = Len(orders_dict)
            /\ \A k \in 1..Len(orders_dict) :
                  /\ orders_dict'[k].key = orders_dict[k].key
                  /\ SummaryFields(orders_dict'[k].val) = SummaryFields(orders_dict[k].val)
                  /\ orders_dict'[k].val.num_articoli =
                         orders_dict[k].val.num_articoli
                             + (IF orders_dict[k].key = Str(rows[idx][1]) THEN 1 ELSE 0)
       ]_vars

\* C2 witness: a summary that counted a later row whose date, case number and
\* article differ from those of the first row of its key
C2_Witness ==
    /\ OrdiniReturned
    /\ \E k \in 1..Len(results) : \E j \in 1..Len(rows) :
          /\ Str(rows[j][1]) = Str(results[k].numdoc_raw)
          /\ j > FirstRow(Str(results[k].numdoc_raw))
          /\ rows[j][2] # results[k].datdoc
          /\ Coalesce(rows[j][3]) # results[k].pratica_numero
          /\ Coalesce(rows[j][4]) # results[k].codart
          /\ results[k].num_articoli >= 2

\* C3: the summaries appear in the order in which their keys first occur in
\* the scanned rows; no re-sort is applied.
C3_FirstSeenOrder ==
    OrdiniReturned =>
        \A a, b \in 1..Len(results) :
            a < b => FirstRow(Str(results[a].numdoc_raw)) < FirstRow(Str(results[b].numdoc_raw))

\* C3 witness: a listing whose first summary has the greater formatted number
\* and whose second summary has the greater raw number: no sort produces it
C3_Witness ==
    /\ OrdiniReturned
    /\ Len(results) >= 2
    /\ SqlStrLess(results[2].numdoc, results[1].numdoc)
    /\ results[1].numdoc_raw.t = "int"
    /\ results[1].numdoc_raw.n < results[2].numdoc_raw.n

----------------------------------------------------------------------------
(* Document-number formatting over every kind of row: claims C4 .. C7 *)

\* Raw document numbers of every kind a row can carry
FormatNumdocs ==
    {PyNone,
     PyInt(0), PyInt(7), PyInt(441), PyInt(12345), PyInt(-7),
     PyDec(0), PyDec(70), PyDec(4415),
     PyStr(<<>>), PyStr(<<"7">>), PyStr(<<" ", "4", "2">>), PyStr(<<"a", "b">>),
     PyStr(<<"4", "x">>)}

\* Document dates of every kind a row can carry
FormatDatdocs ==
    {PyNone,
     PyDate(2024), PyDate(1999),
     PyStr(<<>>),
     PyStr(<<"2", "0", "2", "4", "-", "0", "1", "-", "1", "5">>),
     PyStr(<<"1", "9", "9", "9">>),
     PyStr(<<"a", "b", "c">>),
     PyStr(<<"n", "/", "a", "!">>),
     PyStr(<<"1", "5", "/", "0", "3", "/", "2", "0", "2", "4">>)}

ColumnType(v, default) == IF v.t = "none" THEN default ELSE v.t

\* One order line of client c1 with any document number and any date
InitFormat ==
    /\ \E numdoc \in FormatNumdocs, datdoc \in FormatDatdocs :
        /\ schema = [NUMDOC |-> ColumnType(numdoc, "int"), Datdoc |-> ColumnType(datdoc, "date")]
        /\ tabfat02 = <<Line(numdoc, datdoc, LineVariants[1])>>
    /\ piacon = <<>>
    /\ OPERATORI = <<>>
    /\ Healthy
    /\ Idle

SpecFormat == InitFormat /\ [][Next]_vars

\* The records an operation of the order side has returned
Returned ==
    IF pc = "returned" /\ call.op \in {"get_ordini_cliente", "get_articoli_ordine"}
    THEN {results[k] : k \in 1..Len(results)}
    ELSE {}

Numeric(v) == v.t \in {"int", "dec"}

\* The integer a numeric raw document number stands for (a decimal enters
\* with its integer part)
IntegerPart(v) == IF v.t = "int" THEN v.n ELSE (IF v.n < 0 THEN -((-v.n) \div 10) ELSE v.n \div 10)

\* A date object with a four-digit year, or a text that starts with one
FourDigitYear(d) ==
    \/ d.t = "date" /\ d.n >= 1000 /\ d.n <= 9999
    \/ d.t = "str" /\ Len(d.s) >= 4 /\ \A k \in 1..4 : IsDigit(d.s[k])

\* The last two characters of that year
YearTail(d) ==
    IF d.t = "date" THEN <<DigitChar((d.n \div 10) % 10), DigitChar(d.n % 10)>>
    ELSE <<d.s[3], d.s[4]>>

\* m zero-padded to width 4 (the sign, if any, comes first and counts)
Padded4(m) ==
    IF m >= 0 /\ m <= 9999
    THEN <<DigitChar(m \div 1000), DigitChar((m \div 100) % 10),
           DigitChar((m \div 10) % 10), DigitChar(m % 10)>>
    ELSE IF m < 0 /\ m >= -999
    THEN <<"-", DigitChar((-m) \div 100), DigitChar(((-m) \div 10) % 10), DigitChar((-m) % 10)>>
    ELSE DecStr(m)

C5_NoDateGivesRawString ==
    \A r \in Returned :
        r.datdoc.t = "none" =>
            /\ r.numdoc_raw.t # "none" => r.numdoc = Str(r.numdoc_raw)
            /\ r.numdoc = <<>> <=> r.numdoc_raw.t = "none"

\* C6: for every combination of document date (date object, text, null) and
\* raw document number (integer, decimal, non-numeric text, null) both
\* operations complete without raising a formatting error: the only error an
\* operation raises is the backend's, and every fetched row is in the listing.
C6_NoFormattingError ==
    /\ pc = "raised" => exc = "pyodbc.Error"
    /\ exc \notin {"ValueError", "TypeError", "AttributeError"}
    /\ pc = "returned" /\ call.op = "get_articoli_ordine" => Len(results) = Len(rows)
    /\ pc = "returned" /\ call.op = "get_ordini_cliente" =>
          SumOf([k \in 1..Len(results) |-> results[k].num_articoli], Len(results)) = Len(rows)

\* C6 witness: a row with a date and a non-numeric raw number was listed with
\* the raw text as its number
C6_Witness ==
    \E r \in Returned :
        /\ Truthy(r.datdoc)
        /\ r.numdoc_raw = PyStr(<<"a", "b">>)
        /\ r.numdoc = <<"a", "b">>
        /\ call.op = "get_ordini_cliente"

\* A text holds a four-digit year somewhere
HoldsYear(s) == \E k \in 1..(Len(s) - 3) : \A j \in k..(k + 3) : IsDigit(s[j])

\* A date that is present but neither a date object nor a text with a year
Malformed(d) == d.t = "str" /\ d.s # <<>> /\ ~HoldsYear(d.s)

\* C7: when the document date is present but malformed and the raw document
\* number is present, the formatted document number is the raw number's plain
\* string form, not a year-prefixed string.
C7_MalformedDateGivesRawString ==
    \A r \in Returned :
        Malformed(r.datdoc) /\ r.numdoc_raw.t # "none" => r.numdoc = Str(r.numdoc_raw)

----------------------------------------------------------------------------
(* The client query builder *)

MaxClients == 2

RECURSIVE Like(_, _)
\* text LIKE pattern: % stands for any text, _ for any one character
Like(text, pattern) ==
    IF pattern = <<>> THEN text = <<>>
    ELSE IF pattern[1] = "%"
         THEN Like(text, Tail(pattern)) \/ (text # <<>> /\ Like(Tail(text), pattern))
         ELSE /\ text # <<>>
              /\ pattern[1] = "_" \/ pattern[1] = text[1]
              /\ Like(Tail(text), Tail(pattern))

\* column LIKE ?  in a WHERE clause: not true of a NULL
ColumnLike(v, pattern) == v.t = "str" /\ Like(v.s, pattern)

\* (filtro_mastro or "").strip(), (pattern_ricerca or "").strip()
OrEmptyStripped(v) == IF Truthy(v) THEN Strip(v.s) ELSE <<>>

\* rifconto_like
RifcontoLike(filtro_mastro) ==
    LET filtro_val == OrEmptyStripped(filtro_mastro)
    IN  IF filtro_val = <<>> THEN <<"%">> ELSE filtro_val \o <<"%">>

\* pattern_like
PatternLike(pattern_ricerca, match_anywhere) ==
    LET search_raw == OrEmptyStripped(pattern_ricerca)
    IN  IF search_raw = <<>> THEN <<"%">>
        ELSE IF match_anywhere THEN <<"%">> \o search_raw \o <<"%">>
        ELSE search_raw \o <<"%">>

\* The five searched columns of a client
SearchColumns(c) == <<c.Ragsoc, c.denominazione, c.citta, c.partitaIVA, c.codfisc>>

\* Mutant: the predicate on the inactive flag is never added
ClientWhereAnyFlag(c, rifconto_like, pattern_like, mostra_disattivati) ==
    /\ c.Ragsoc.t = "str" /\ SqlStrLess(<<" ">>, c.Ragsoc.s)
    /\ c.codice.t = "str" /\ ~SqlStrEq(c.codice.s, <<"0", "0", "0", "0">>)
    /\ ColumnLike(c.Rifconto, rifconto_like)
    /\ \E k \in 1..5 : ColumnLike(SearchColumns(c)[k], pattern_like)

\* Mutant: the predicate on the inactive flag is  disattivato = 0, which is
\* not true of a NULL
ClientWhereZeroOnly(c, rifconto_like, pattern_like, mostra_disattivati) ==
    /\ c.Ragsoc.t = "str" /\ SqlStrLess(<<" ">>, c.Ragsoc.s)
    /\ c.codice.t = "str" /\ ~SqlStrEq(c.codice.s, <<"0", "0", "0", "0">>)
    /\ ColumnLike(c.Rifconto, rifconto_like)
    /\ ~mostra_disattivati => (c.disattivato.t # "none" /\ c.disattivato.n = 0)
    /\ \E k \in 1..5 : ColumnLike(SearchColumns(c)[k], pattern_like)

\* The WHERE clause get_clients builds, for one client and the bound
\* parameters: a comparison with a NULL is not true
ClientWhere(c, rifconto_like, pattern_like, mostra_disattivati) ==
    /\ c.Ragsoc.t = "str" /\ SqlStrLess(<<" ">>, c.Ragsoc.s)
    /\ c.codice.t = "str" /\ ~SqlStrEq(c.codice.s, <<"0", "0", "0", "0">>)
    /\ ColumnLike(c.Rifconto, rifconto_like)
    /\ ~mostra_disattivati => (c.disattivato.t = "none" \/ c.disattivato.n = 0)
    /\ \E k \in 1..5 : ColumnLike(SearchColumns(c)[k], pattern_like)

\* CONCAT(piacon.Ragsoc, ' ', piacon.denominazione): a NULL counts as ''
ConcatRagsoc(c) ==
    PyStr((IF c.Ragsoc.t = "str" THEN c.Ragsoc.s ELSE <<>>) \o <<" ">>
              \o (IF c.denominazione.t = "str" THEN c.denominazione.s ELSE <<>>))

\* The selected columns of a client: rec[0..2] of the code are rec[1..3] here
ClientRow(c) == <<ConcatRagsoc(c), c.citta, c.Rifconto>>

\* The record get_clients appends for one row
ClientRecord(rec) ==
    [ragsoc |-> Coalesce(rec[1]), citta |-> Coalesce(rec[2]), rifconto |-> Coalesce(rec[3])]

\* The piacon records the query selects, in the orders the backend may
\* deliver them under ORDER BY Ragsoc (the selected, concatenated column)
QueryClients(rifconto_like, pattern_like, mostra_disattivati) ==
    LET kept == SelectSeq([k \in 1..Len(piacon) |-> k],
                    LAMBDA k : ClientWhere(piacon[k], rifconto_like, pattern_like,
                                           mostra_disattivati))
        n == Len(kept)
    IN  {[k \in 1..n |-> kept[p[k]]] :
            p \in Orderings([k \in 1..n |-> ConcatRagsoc(piacon[kept[k]])], FALSE)}

\* The arguments callers pass
FiltroMastroArgs == {PyNone, PyStr(<<"0", "1">>), PyStr(<<"_", "1">>)}

PatternRicercaArgs == {PyNone, PyStr(<<"a">>), PyStr(<<"_">>)}

\* Mutant: the search pattern is written into the query text
ClientsStatementInterpolated(filtro_mastro, mostra_disattivati, pattern_ricerca, match_anywhere) ==
    LET pattern_like == PatternLike(pattern_ricerca, match_anywhere)
    IN  [text |-> <<"SELECT ", "CONCAT(piacon.Ragsoc, ' ', piacon.denominazione) AS Ragsoc", ", ",
                    "piacon.Citta", ", ", "piacon.Rifconto",
                    " FROM piacon LEFT JOIN bancheapp ON piacon.banca = bancheapp.codice LEFT JOIN PAGAMENTI ON piacon.PAGAMENTO = PAGAMENTI.Codice WHERE piacon.Ragsoc > ' ' AND piacon.codice <> '0000' AND piacon.Rifconto LIKE ?">>
                  \o (IF ~mostra_disattivati
                      THEN <<" AND ISNULL(piacon.disattivato, 0) = 0">> ELSE <<>>)
                  \o <<" AND (piacon.Ragsoc LIKE '", pattern_like, "' OR piacon.denominazione LIKE ? OR piacon.citta LIKE ? OR piacon.partitaIVA LIKE ? OR piacon.codfisc LIKE ?)",
                       " ORDER BY Ragsoc">>,
         params |-> <<RifcontoLike(filtro_mastro)>> \o [k \in 1..5 |-> pattern_like]]

\* The statement get_clients executes: the query text it builds and the
\* bound parameters
ClientsStatement(filtro_mastro, mostra_disattivati, pattern_ricerca, match_anywhere) ==
    LET rifconto_like == RifcontoLike(filtro_mastro)
        pattern_like == PatternLike(pattern_ricerca, match_anywhere)
    IN  [text |-> <<"SELECT ", "CONCAT(piacon.Ragsoc, ' ', piacon.denominazione) AS Ragsoc", ", ",
                    "piacon.Citta", ", ", "piacon.Rifconto",
                    " FROM piacon LEFT JOIN bancheapp ON piacon.banca = bancheapp.codice LEFT JOIN PAGAMENTI ON piacon.PAGAMENTO = PAGAMENTI.Codice WHERE piacon.Ragsoc > ' ' AND piacon.codice <> '0000' AND piacon.Rifconto LIKE ?">>
                  \o (IF ~mostra_disattivati
                      THEN <<" AND ISNULL(piacon.disattivato, 0) = 0">> ELSE <<>>)
                  \o <<" AND (piacon.Ragsoc LIKE ? OR piacon.denominazione LIKE ? OR piacon.citta LIKE ? OR piacon.partitaIVA LIKE ? OR piacon.codfisc LIKE ?)",
                       " ORDER BY Ragsoc">>,
         params |-> <<rifconto_like>> \o [k \in 1..5 |-> pattern_like]]

\* get_clients: the query is built and executed, every row is shaped
get_clients ==
    /\ pc = "idle"
    /\ \E filtro_mastro \in FiltroMastroArgs, mostra_disattivati \in BOOLEAN,
          pattern_ricerca \in PatternRicercaArgs, match_anywhere \in BOOLEAN :
        LET c == get_configured_connection
            statement == ClientsStatement(filtro_mastro, mostra_disattivati,
                                          pattern_ricerca, match_anywhere)
        IN  /\ call' = [NoCall EXCEPT !.op = "get_clients",
                                      !.filtro_mastro = filtro_mastro,
                                      !.mostra_disattivati = mostra_disattivati,
                                      !.pattern_ricerca = pattern_ricerca,
                                      !.match_anywhere = match_anywhere]
            /\ IF c.exc # "none"
               THEN /\ connection' = Connected(c)
                    /\ sql' = NoStatement
                    /\ src' = <<>> /\ rows' = <<>> /\ results' = <<>>
                    /\ pc' = "raised"
                    /\ exc' = c.exc
               ELSE /\ sql' = statement
                    /\ IF server = "failing"
                       THEN /\ connection' = ExitByRaise(Connected(c))
                            /\ src' = <<>> /\ rows' = <<>> /\ results' = <<>>
                            /\ pc' = "raised"
                            /\ exc' = "pyodbc.Error"
                       ELSE /\ connection' = ExitByReturn(Connected(c))
                            /\ \E fetched \in QueryClients(statement.params[1],
                                                           statement.params[2],
                                                           mostra_disattivati) :
                                /\ src' = fetched
                                /\ rows' = [k \in 1..Len(fetched) |->
                                               ClientRow(piacon[fetched[k]])]
                                /\ results' = [k \in 1..Len(fetched) |->
                                                  ClientRecord(ClientRow(piacon[fetched[k]]))]
                            /\ pc' = "returned"
                            /\ exc' = exc
    /\ UNCHANGED <<web, env, idx, orders_dict>>

\* The name and search columns of a client
ClientNames ==
    <<[Ragsoc |-> PyStr(<<"a", "b">>), denominazione |-> PyNone, citta |-> PyNone,
       partitaIVA |-> PyNone, codfisc |-> PyNone],
      [Ragsoc |-> PyStr(<<"b">>), denominazione |-> PyStr(<<"a">>), citta |-> PyNone,
       partitaIVA |-> PyNone, codfisc |-> PyNone],
      [Ragsoc |-> PyStr(<<"b">>), denominazione |-> PyNone, citta |-> PyStr(<<"b", "a">>),
       partitaIVA |-> PyNone, codfisc |-> PyNone],
      [Ragsoc |-> PyStr(<<"b">>), denominazione |-> PyNone, citta |-> PyNone,
       partitaIVA |-> PyStr(<<"a">>), codfisc |-> PyNone],
      [Ragsoc |-> PyStr(<<"b">>), denominazione |-> PyNone, citta |-> PyNone,
       partitaIVA |-> PyNone, codfisc |-> PyStr(<<"a", "b">>)],
      [Ragsoc |-> PyStr(<<"b">>), denominazione |-> PyNone, citta |-> PyNone,
       partitaIVA |-> PyNone, codfisc |-> PyNone],
      [Ragsoc |-> PyStr(<<" ">>), denominazione |-> PyStr(<<"a">>), citta |-> PyNone,
       partitaIVA |-> PyNone, codfisc |-> PyNone]>>

\* The account reference, code and inactive flag of a client
ClientAccounts ==
    <<[Rifconto |-> PyStr(<<"0", "1">>), codice |-> PyStr(<<"0", "0", "0", "1">>),
       disattivato |-> PyNone],
      [Rifconto |-> PyStr(<<"0", "2">>), codice |-> PyStr(<<"0", "0", "0", "1">>),
       disattivato |-> PyInt(0)],
      [Rifconto |-> PyStr(<<"0", "1">>), codice |-> PyStr(<<"0", "0", "0", "1">>),
       disattivato |-> PyInt(1)],
      [Rifconto |-> PyStr(<<"0", "1">>), codice |-> PyStr(<<"0", "0", "0", "0">>),
       disattivato |-> PyInt(0)],
      [Rifconto |-> PyNone, codice |-> PyStr(<<"0", "0", "0", "1">>),
       disattivato |-> PyInt(0)]>>

ClientCodes == 1..(Len(ClientNames) * Len(ClientAccounts))

\* The c-th client of the domain
ClientOf(c) ==
    LET nm == ClientNames[((c - 1) \div Len(ClientAccounts)) + 1]
        ac == ClientAccounts[((c - 1) % Len(ClientAccounts)) + 1]
    IN  [Ragsoc |-> nm.Ragsoc, denominazione |-> nm.denominazione, citta |-> nm.citta,
         partitaIVA |-> nm.partitaIVA, codfisc |-> nm.codfisc,
         Rifconto |-> ac.Rifconto, codice |-> ac.codice, disattivato |-> ac.disattivato]

\* Every bag of at most MaxClients clients, each written once (in code order)
ClientTables ==
    UNION {{[k \in 1..n |-> ClientOf(f[k])] :
              f \in {g \in [1..n -> ClientCodes] : \A k \in 1..(n - 1) : g[k] <= g[k + 1]}} :
           n \in 0..MaxClients}

InitClients ==
    /\ schema = [NUMDOC |-> "int", Datdoc |-> "date"]
    /\ tabfat02 = <<>>
    /\ piacon \in ClientTables
    /\ OPERATORI = <<>>
    /\ Healthy
    /\ Idle

NextClients ==
    \/ get_clients
    \/ NextRequest

SpecClients == InitClients /\ [][NextClients]_vars

----------------------------------------------------------------------------
(* Client listing: claims C8, C9, C10 *)

ClientsReturned == pc = "returned" /\ call.op = "get_clients"

\* The inactive flag is null or zero
Active(c) == c.disattivato.t = "none" \/ c.disattivato.n = 0

\* The piacon records behind the returned list
Sources == {src[k] : k \in 1..Len(src)}

\* get_clients(filtro_mastro=None, pattern_ricerca=None, mostra_disattivati=False) has returned
UnfilteredReturned ==
    /\ ClientsReturned
    /\ call.filtro_mastro = PyNone
    /\ call.pattern_ricerca = PyNone
    /\ ~call.mostra_disattivati

\* The returned list is the fetched rows, shaped, in the backend's order,
\* and that order is ascending by display name
InBackendOrder ==
    /\ Len(results) = Len(src)
    /\ \A k \in 1..Len(results) :
          LET c == piacon[src[k]]
          IN  /\ results[k].ragsoc = ConcatRagsoc(c)
              /\ results[k].citta = (IF c.citta.t = "none" THEN PyStr(<<>>) ELSE c.citta)
              /\ results[k].rifconto = (IF c.Rifconto.t = "none" THEN PyStr(<<>>) ELSE c.Rifconto)
    /\ \A k \in 1..(Len(results) - 1) : ~SqlStrLess(results[k + 1].ragsoc.s, results[k].ragsoc.s)

\* C8 as stated: with no prefix, no search text and mostra_disattivati=False
\* get_clients returns every client record whose inactive flag is null or
\* zero, and only those, in the backend's ascending display-name order
C8_EveryActiveClient ==
    UnfilteredReturned =>
        /\ Sources = {k \in 1..Len(piacon) : Active(piacon[k])}
        /\ InBackendOrder

\* The fixed predicates of the query: a name above the blank, a code that is
\* not '0000', an account reference that is not NULL
Listable(c) ==
    /\ c.Ragsoc.t = "str" /\ \E k \in 1..Len(c.Ragsoc.s) : c.Ragsoc.s[k] # " "
    /\ c.codice.t = "str" /\ c.codice.s # <<"0", "0", "0", "0">>
    /\ c.Rifconto.t # "none"

\* C8 (amended): with no prefix, no search text and mostra_disattivati=False
\* get_clients returns the records of exactly the clients whose inactive flag
\* is null or zero and whose Ragsoc is greater than a blank, whose codice is
\* not '0000' and whose Rifconto is not NULL, in the ascending display-name
\* order delivered by the backend, with no client-side re-ordering.
C8_EveryListableActiveClient ==
    UnfilteredReturned =>
        /\ Sources = {k \in 1..Len(piacon) : Listable(piacon[k]) /\ Active(piacon[k])}
        /\ InBackendOrder

\* C8 witness: two active clients, one with a null flag and one with flag 0,
\* listed by name in the reverse of their stored order
C8_Witness ==
    /\ UnfilteredReturned
    /\ src = <<2, 1>>
    /\ {piacon[1].disattivato, piacon[2].disattivato} = {PyNone, PyInt(0)}
    /\ results[1].ragsoc # results[2].ragsoc

StartsWith(text, prefix) ==
    Len(prefix) <= Len(text) /\ SubSeq(text, 1, Len(prefix)) = prefix

Occurs(text, part) ==
    \E k \in 0..(Len(text) - Len(part)) : SubSeq(text, k + 1, k + Len(part)) = part

\* C9: for every non-empty prefix p and search text s, every record returned
\* by get_clients(p, mostra_disattivati=False, s, match_anywhere=True) has a
\* rifconto that starts with p, an inactive flag that is null or zero, and s
\* occurring in at least one of the five searchable fields.
C9_PrefixActiveAndContains ==
    /\ ClientsReturned
    /\ call.filtro_mastro # PyNone
    /\ call.pattern_ricerca # PyNone
    /\ ~call.mostra_disattivati
    /\ call.match_anywhere
    => \A k \in Sources :
          /\ piacon[k].Rifconto.t = "str"
          /\ StartsWith(piacon[k].Rifconto.s, call.filtro_mastro.s)
          /\ Active(piacon[k])
          /\ \E f \in 1..5 :
                /\ SearchColumns(piacon[k])[f].t = "str"
                /\ Occurs(SearchColumns(piacon[k])[f].s, call.pattern_ricerca.s)

\* C10: with match_anywhere=False get_clients returns only records in which
\* at least one of the five searchable fields starts with s, and the result
\* of match_anywhere=True with the same s and the same other arguments holds
\* every record of the prefix-only result.
C10_PrefixOnlyAndSuperset ==
    /\ ClientsReturned
    /\ call.pattern_ricerca # PyNone
    /\ ~call.match_anywhere
    => /\ \A k \in Sources :
             \E f \in 1..5 :
                /\ SearchColumns(piacon[k])[f].t = "str"
                /\ StartsWith(SearchColumns(piacon[k])[f].s, call.pattern_ricerca.s)
       /\ \A anywhere \in QueryClients(RifcontoLike(call.filtro_mastro),
                                       PatternLike(call.pattern_ricerca, TRUE),
                                       call.mostra_disattivati) :
             Sources \subseteq {anywhere[k] : k \in 1..Len(anywhere)}

----------------------------------------------------------------------------
(* The inactive flag: claim C11 *)

\* The filters of the running call other than the one on the inactive flag
PassesOtherFilters(c) ==
    /\ Listable(c)
    /\ ColumnLike(c.Rifconto, RifcontoLike(call.filtro_mastro))
    /\ \E k \in 1..5 :
          ColumnLike(SearchColumns(c)[k],
                     PatternLike(call.pattern_ricerca, call.match_anywhere))

\* C11: with mostra_disattivati=False get_clients returns, of the clients
\* that pass the other filters, exactly those whose inactive flag is null or
\* zero; with mostra_disattivati=True it returns all of them, so the True
\* result is the False result plus the inactive clients that pass the other
\* filters.
C11_FlagPredicateOnlyWhenHidden ==
    ClientsReturned =>
        Sources = {k \in 1..Len(piacon) :
                      /\ PassesOtherFilters(piacon[k])
                      /\ call.mostra_disattivati \/ Active(piacon[k])}

\* C11 witness: a call showing the inactive clients returns one with a null
\* flag and one with a non-zero flag
C11_Witness ==
    /\ ClientsReturned
    /\ call.mostra_disattivati
    /\ \E j \in Sources, k \in Sources :
          /\ piacon[j].disattivato = PyNone
          /\ piacon[k].disattivato = PyInt(1)

----------------------------------------------------------------------------
(* The single-row lookups and the connectivity probe *)

PyBool(b) == [t |-> "bool", n |-> IF b THEN 1 ELSE 0, s |-> <<>>]

\* What cursor.fetchone() may deliver for get_cliente_nome's query, as the
\* value of  row[0] if row else None : the query has no ORDER BY, any
\* matching client may come first
QueryClienteNome(rifconto) ==
    LET hits == {k \in 1..Len(piacon) :
                    /\ piacon[k].Rifconto.t = "str"
                    /\ SqlStrEq(piacon[k].Rifconto.s, rifconto)}
    IN  IF hits = {} THEN {PyNone} ELSE {ConcatRagsoc(piacon[k]) : k \in hits}

\* What fetch_user_by_username returns for the row cursor.fetchone() may
\* deliver: None, or dict(zip(columns, row))
QueryUser(username) ==
    LET hits == {k \in 1..Len(OPERATORI) : SqlStrEq(OPERATORI[k].Nome, username)}
    IN  IF hits = {} THEN {PyNone}
        ELSE {[ID |-> OPERATORI[k].ID, Nome |-> OPERATORI[k].Nome,
               Password |-> OPERATORI[k].PASSWORD2005] : k \in hits}

\* The account references and the usernames callers pass
Rifcontos == {<<"0", "1">>, <<"0", "9">>}

Usernames == {<<"a">>, <<"b">>}

\* get_cliente_nome: a database error is logged and None returned
get_cliente_nome ==
    /\ pc = "idle"
    /\ \E rifconto \in Rifcontos :
        LET c == get_configured_connection
        IN  /\ call' = [NoCall EXCEPT !.op = "get_cliente_nome", !.rifconto = rifconto]
            /\ IF c.exc \notin {"none", "pyodbc.Error"}
               THEN /\ connection' = Connected(c)
                    /\ sql' = NoStatement
                    /\ results' = <<>>
                    /\ pc' = "raised"
                    /\ exc' = c.exc
               ELSE /\ connection' = ExitByReturn(Connected(c))
                    /\ sql' = IF c.exc = "none" THEN ClienteNomeStatement(rifconto)
                              ELSE NoStatement
                    /\ IF c.exc = "pyodbc.Error" \/ server = "failing"
                       THEN results' = <<PyNone>>
                       ELSE \E value \in QueryClienteNome(rifconto) : results' = <<value>>
                    /\ pc' = "returned"
                    /\ exc' = exc
    /\ UNCHANGED <<web, env, rows, src, idx, orders_dict>>

\* fetch_user_by_username: a database error is logged and raised again
fetch_user_by_username ==
    /\ pc = "idle"
    /\ \E username \in Usernames :
        LET c == get_configured_connection
        IN  /\ call' = [NoCall EXCEPT !.op = "fetch_user_by_username",
                                      !.username = username]
            /\ IF c.exc # "none"
               THEN /\ connection' = Connected(c)
                    /\ sql' = NoStatement
                    /\ results' = <<>>
                    /\ pc' = "raised"
                    /\ exc' = c.exc
               ELSE /\ sql' = UserStatement(username)
                    /\ IF server = "failing"
                       THEN /\ connection' = ExitByRaise(Connected(c))
                            /\ results' = <<>>
                            /\ pc' = "raised"
                            /\ exc' = "pyodbc.Error"
                       ELSE /\ connection' = ExitByReturn(Connected(c))
                            /\ \E value \in QueryUser(username) : results' = <<value>>
                            /\ pc' = "returned"
                            /\ exc' = exc
    /\ UNCHANGED <<web, env, rows, src, idx, orders_dict>>

\* try_connection: get_connection() with no timeout given; no statement
try_connection ==
    /\ pc = "idle"
    /\ LET c == get_connection(PyNone)
       IN  /\ call' = [NoCall EXCEPT !.op = "try_connection"]
           /\ IF c.exc \notin {"none", "pyodbc.Error"}
              THEN /\ connection' = Connected(c)
                   /\ results' = <<>>
                   /\ pc' = "raised"
                   /\ exc' = c.exc
              ELSE /\ connection' = ExitByReturn(Connected(c))
                   /\ results' = <<PyBool(c.exc = "none")>>
                   /\ pc' = "returned"
                   /\ exc' = exc
    /\ UNCHANGED <<web, env, sql, rows, src, idx, orders_dict>>

----------------------------------------------------------------------------
(* The whole layer over every configuration and a server that may fail *)

\* DB_DRIVER of the environment: unset, a driver outside the preference
\* list, a preferred driver written with blanks around it, blanks only
DriverSettings ==
    {<<>>, <<"F", "r", "e", "e", "T", "D", "S">>,
     <<" ", "S", "Q", "L", " ", "S", "e", "r", "v", "e", "r", " ">>, <<" ", " ">>}

\* pyodbc.drivers()
InstalledSets ==
    {{}, {PREFERRED_DRIVERS[1]}, {PREFERRED_DRIVERS[2], PREFERRED_DRIVERS[3]},
     {<<"S", "Q", "L", " ", "S", "e", "r", "v", "e", "r", " ">>},
     {<<"F", "r", "e", "e", "T", "D", "S">>},
     {<<"F", "r", "e", "e", "T", "D", "S">>, PREFERRED_DRIVERS[1], PREFERRED_DRIVERS[2]}}

\* DB_LOGIN_TIMEOUT of the environment: always a text
TimeoutSettings ==
    {PyStr(<<"3", "0">>), PyStr(<<"a", "b", "c">>), PyStr(<<"0">>), PyStr(<<"-", "1">>)}

\* DB_LOGIN_TIMEOUT of the app's config when the app has set it itself
AppTimeouts == {PyNone, PyInt(10), PyInt(0), PyStr(<<"x">>)}

InitLayer ==
    /\ schema = [NUMDOC |-> "int", Datdoc |-> "date"]
    /\ tabfat02 = <<Line(PyInt(441), PyDate(2024), LineVariants[1]),
                    Line(PyInt(441), PyDate(2023), LineVariants[2])>>
    /\ piacon = <<ClientOf(1), ClientOf(7)>>
    /\ OPERATORI = <<[ID |-> 1, Nome |-> <<"a">>, PASSWORD2005 |-> <<"p">>]>>
    /\ Config \in [DB_DRIVER : DriverSettings, DB_LOGIN_TIMEOUT : TimeoutSettings]
    /\ app_config \in {FromObject(Config)} \cup [DB_LOGIN_TIMEOUT : AppTimeouts]
    /\ drivers \in InstalledSets
    /\ server \in {"up", "down", "failing"}
    /\ Idle

NextLayer ==
    \/ get_clients
    \/ get_cliente_nome
    \/ get_ordini_cliente_execute
    \/ get_ordini_cliente_row
    \/ get_ordini_cliente_return
    \/ get_articoli_ordine_execute
    \/ get_articoli_ordine_row
    \/ get_articoli_ordine_return
    \/ fetch_user_by_username
    \/ try_connection
    \/ NextRequest

SpecLayer == InitLayer /\ [][NextLayer]_vars

----------------------------------------------------------------------------
(* Statements, connections and errors: claims C12, C13, C14 *)

DataOps ==
    {"get_clients", "get_ordini_cliente", "get_articoli_ordine", "get_cliente_nome",
     "fetch_user_by_username"}

Finished == pc \in {"returned", "raised"}

\* The query texts the running operation builds as its string arguments (and
\* match_anywhere) range over what callers pass
StatementTexts ==
    CASE call.op = "get_clients" ->
            {ClientsStatement(f, call.mostra_disattivati, p, m).text :
                f \in FiltroMastroArgs, p \in PatternRicercaArgs, m \in BOOLEAN}
      [] call.op = "get_ordini_cliente" -> {OrdiniStatement(c).text : c \in Codcfs}
      [] call.op = "get_articoli_ordine" ->
            {ArticoliStatement(c, n).text : c \in Codcfs, n \in ArticoliParams}
      [] call.op = "get_cliente_nome" -> {ClienteNomeStatement(r).text : r \in Rifcontos}
      [] call.op = "fetch_user_by_username" -> {UserStatement(u).text : u \in Usernames}
      [] OTHER -> {}

\* The caller's values as they are bound
BoundValues ==
    CASE call.op = "get_clients" ->
            <<RifcontoLike(call.filtro_mastro)>>
                \o [k \in 1..5 |-> PatternLike(call.pattern_ricerca, call.match_anywhere)]
      [] call.op = "get_ordini_cliente" -> <<call.codcf>>
      [] call.op = "get_articoli_ordine" -> <<call.codcf, call.numdoc_raw>>
      [] call.op = "get_cliente_nome" -> <<call.rifconto>>
      [] call.op = "fetch_user_by_username" -> <<call.username>>
      [] OTHER -> <<>>

\* C12: the text of an executed statement is the same whatever string
\* arguments the operation is called with (the text of get_clients varies
\* only with mostra_disattivati), and the caller's values are in the list of
\* bound parameters.
C12_TextIndependentOfStrings ==
    sql # NoStatement =>
        /\ call.op \in DataOps
        /\ StatementTexts = {sql.text}
        /\ sql.params = BoundValues

\* C12 witness: get_clients has executed its statement for a prefix and a
\* search text holding a wildcard, both bound as parameters
C12_Witness ==
    /\ ClientsReturned
    /\ call.filtro_mastro = PyStr(<<"_", "1">>)
    /\ call.pattern_ricerca = PyStr(<<"_">>)
    /\ sql.params[1] = <<"_", "1", "%">>
    /\ sql.params[2] = <<"%", "_", "%">>
    /\ Len(sql.params) = 6

\* C13 as stated: when an operation has returned or raised, it has opened at
\* most one connection and no connection it opened is still open
C13_ClosedOnEveryExit ==
    Finished => connection.opened <= 1 /\ connection.open = 0

\* C14 as stated: when connecting or executing fails with a database error
\* in a data-access operation, the operation raises that error and returns
\* nothing
C14_BackendErrorRaised ==
    (Finished /\ call.op \in DataOps /\ connection.attempts = 1 /\ server # "up") =>
        (pc = "raised" /\ exc = "pyodbc.Error" /\ results = <<>>)

----------------------------------------------------------------------------
(* The provisioner: claims C15, C20 *)

\* The configured name and the installed set, as _resolve_driver compares them
ConfiguredName == Strip(Config.DB_DRIVER)

InstalledNames == {Strip(d) : d \in drivers}

PreferredInstalled == {k \in 1..3 : PREFERRED_DRIVERS[k] \in InstalledNames}

Min(S) == CHOOSE k \in S : \A j \in S : k <= j

Called == call.op # "none"

\* C15: the driver of the connection attempt is the configured name when
\* that is non-empty and installed, else the first installed entry of
\* PREFERRED_DRIVERS; with neither, the operation raises and attempts no
\* connection.  A driver used is always an installed one.
C15_DriverResolution ==
    Called =>
        /\ IF ConfiguredName # <<>> /\ ConfiguredName \in InstalledNames
           THEN connection.attempts = 1 /\ connection.driver = ConfiguredName
           ELSE IF PreferredInstalled # {}
           THEN /\ connection.attempts = 1
                /\ connection.driver = PREFERRED_DRIVERS[Min(PreferredInstalled)]
           ELSE connection.attempts = 0 /\ pc = "raised" /\ exc = "RuntimeError"
        /\ connection.attempts = 1 => connection.driver \in InstalledNames

\* C15 witness: a driver is configured that is not installed, and the
\* connection is attempted with the second preferred driver
C15_Witness ==
    /\ Called
    /\ ConfiguredName = <<"F", "r", "e", "e", "T", "D", "S">>
    /\ ConfiguredName \notin InstalledNames
    /\ connection.attempts = 1
    /\ connection.driver = PREFERRED_DRIVERS[2]

\* The timeout get_connection is called with: the app's setting, none for
\* try_connection
CallerTimeout == IF call.op = "try_connection" THEN PyNone ELSE app_config.DB_LOGIN_TIMEOUT

Coercible(v) == v.t = "int" \/ (v.t = "str" /\ ParseInt(v.s).exc = "none")

AsInt(v) == IF v.t = "int" THEN v.n ELSE ParseInt(v.s).n

\* C20 as stated: every connection attempt carries int(timeout) when the
\* caller's timeout is coercible, else int(Config.DB_LOGIN_TIMEOUT) when that
\* is coercible, else 5, and the timeout is positive
C20_PositiveTimeout ==
    (Called /\ connection.attempts = 1) =>
        /\ connection.timeout =
              (IF Coercible(CallerTimeout) THEN AsInt(CallerTimeout)
               ELSE IF Coercible(Config.DB_LOGIN_TIMEOUT) THEN AsInt(Config.DB_LOGIN_TIMEOUT)
               ELSE 5)
        /\ connection.timeout > 0

----------------------------------------------------------------------------
(* Order lines, the two formatters, repeated calls, the grouping key:
   claims C16, C17, C18, C19 *)

ArticoliReturned == pc = "returned" /\ call.op = "get_articoli_ordine"

\* NULL or empty becomes "", anything else is kept
TextOf(v) == IF v.t = "none" \/ v = PyStr(<<>>) THEN PyStr(<<>>) ELSE v

\* C16: get_articoli_ordine returns one record per fetched row, the i-th
\* record built from the i-th row, in the backend's order (ascending
\* PraticaNumero), with no grouping and no de-duplication.
C16_OneRecordPerRow ==
    ArticoliReturned =>
        /\ Len(results) = Len(rows)
        /\ \A k \in 1..Len(rows) :
              /\ results[k].numdoc_raw = rows[k][1]
              /\ results[k].datdoc = rows[k][2]
              /\ results[k].pratica_numero = TextOf(rows[k][3])
              /\ results[k].codart = TextOf(rows[k][4])
              /\ results[k].desart = TextOf(rows[k][5])
        /\ \A k \in 1..(Len(rows) - 1) : SqlLeq(rows[k][3], rows[k + 1][3])

\* C16 witness: three rows of one document, two of them equal in every
\* column, returned as three records
C16_Witness ==
    /\ ArticoliReturned
    /\ Len(results) = 3
    /\ \E j, k \in 1..3 : j # k /\ results[j] = results[k] /\ results[j].desart # PyStr(<<>>)
    /\ \E j, k \in 1..3 : results[j].pratica_numero # results[k].pratica_numero

\* C17: for every document date and raw document number, get_ordini_cliente
\* and get_articoli_ordine format the same string: each record returned by
\* one of them carries the number the other's formatting gives for its date
\* and raw number.
C17_SameFormatting ==
    /\ OrdiniReturned =>
          \A k \in 1..Len(results) :
              FormatNumdocArticoli(results[k].datdoc, results[k].numdoc_raw)
                  = Formatted(results[k].numdoc)
    /\ ArticoliReturned =>
          \A k \in 1..Len(results) :
              FormatNumdocOrdini(results[k].datdoc, results[k].numdoc_raw)
                  = Formatted(results[k].numdoc)

\* C17 witness: get_articoli_ordine has formatted a text date and a decimal
\* number
C17_Witness ==
    /\ ArticoliReturned
    /\ Len(results) = 1
    /\ results[1].datdoc.t = "str"
    /\ results[1].numdoc_raw.t = "dec"
    /\ Len(results[1].numdoc) = 6

RECURSIVE OrdiniDict(_, _)
\* orders_dict after the first n of the fetched rows
OrdiniDict(fetched, n) ==
    IF n = 0 THEN <<>>
    ELSE GroupRow(OrdiniDict(fetched, n - 1), fetched[n],
                  FormatNumdocOrdini(fetched[n][2], fetched[n][1]).s)

\* C18 as stated: against the unchanged backend the same call returns the
\* same record sequence, whichever of the orders the backend may deliver
\* tied rows in
C18_SameResultOnRepeat ==
    /\ OrdiniReturned =>
          \A fetched \in QueryOrdini(call.codcf) :
              DictValues(OrdiniDict(fetched, Len(fetched))) = results
    /\ ArticoliReturned =>
          \A fetched \in QueryArticoli(call.codcf, call.numdoc_raw).sets :
              [k \in 1..Len(fetched) |->
                  LineItem(fetched[k],
                           FormatNumdocArticoli(fetched[k][2], fetched[k][1]).s)] = results

\* A step of get_ordini_cliente's loop over one row
C19_RowStep == pc = "ordini_loop" /\ pc' = "ordini_loop" /\ idx' = idx + 1

\* The rows before the current one with the same string form of the raw number
C19_SameString == {j \in 1..(idx - 1) : Str(rows[j][1]) = Str(rows[idx][1])}

\* C19: a row joins the summary of an earlier row exactly when the string
\* forms of their raw document numbers are equal, whatever their dates and
\* formatted numbers; otherwise it opens a summary of its own.
C19_CollapsedIffSameString ==
    [][C19_RowStep =>
          IF C19_SameString = {}
          THEN /\ Len(orders_dict') = Len(orders_dict) + 1
               /\ orders_dict'[Len(orders_dict')].val.numdoc_raw = rows[idx][1]
               /\ \A k \in 1..Len(orders_dict) : orders_dict'[k] = orders_dict[k]
          ELSE /\ Len(orders_dict') = Len(orders_dict)
               /\ \A k \in 1..Len(orders_dict) :
                     orders_dict'[k].val.num_articoli =
                         orders_dict[k].val.num_articoli
                             + (IF orders_dict[k].val.numdoc_raw
                                      = rows[Min(C19_SameString)][1]
                                   /\ orders_dict[k].val.datdoc
                                      = rows[Min(C19_SameString)][2]
                                THEN 1 ELSE 0)
    ]_vars

\* C19 witness: two rows of one raw number and two different dates have
\* formed one summary
C19_Witness ==
    /\ OrdiniReturned
    /\ Len(rows) = 3
    /\ \E k \in 1..Len(results) :
          /\ results[k].num_articoli = 2
          /\ \E i, j \in 1..3 :
                /\ rows[i][1] = results[k].numdoc_raw
                /\ rows[j][1] = results[k].numdoc_raw
                /\ rows[i][2] # rows[j][2]

----------------------------------------------------------------------------
(* The text fields of the returned records: claim C21 *)

\* The values of a text column: NULL, empty, not empty
CaseNumbers == <<PyNone, PyStr(<<>>), PyStr(<<"p", "1">>)>>

ArticleCodes == <<PyStr(<<"x">>), PyStr(<<"y">>), PyStr(<<"z">>)>>

RecordLineCodes == 1..(2 * Len(CaseNumbers) * Len(ArticleCodes))

\* The c-th order line of client c1: a document number or none, a case
\* number, an article
RecordLineOf(c) ==
    [codcf |-> <<"c", "1">>, tipdoc |-> <<"O", "C">>,
     NUMDOC |-> IF (c - 1) % 2 = 0 THEN PyInt(441) ELSE PyNone,
     Datdoc |-> PyDate(2024),
     PraticaNumero |-> CaseNumbers[(((c - 1) \div 2) % Len(CaseNumbers)) + 1],
     CODART |-> ArticleCodes[((c - 1) \div (2 * Len(CaseNumbers))) + 1]]

\* Every bag of at most two such lines
RecordTables ==
    UNION {{[k \in 1..n |-> RecordLineOf(f[k])] :
              f \in {g \in [1..n -> RecordLineCodes] : \A k \in 1..(n - 1) : g[k] <= g[k + 1]}} :
           n \in 0..2}

\* The clients: a name, a second name or none, a city that is NULL, empty or
\* not, an account reference that is empty or not
RecordClients ==
    {[Ragsoc |-> PyStr(<<"b">>), denominazione |-> d, citta |-> c,
      partitaIVA |-> PyNone, codfisc |-> PyNone,
      Rifconto |-> r, codice |-> PyStr(<<"0", "0", "0", "1">>), disattivato |-> PyNone] :
        d \in {PyNone, PyStr(<<"a">>)},
        c \in {PyNone, PyStr(<<>>), PyStr(<<"b", "a">>)},
        r \in {PyStr(<<>>), PyStr(<<"0", "1">>)}}

InitRecords ==
    /\ schema = [NUMDOC |-> "int", Datdoc |-> "date"]
    /\ \/ tabfat02 \in RecordTables /\ piacon = <<>>
       \/ tabfat02 = <<>> /\ piacon \in {<<c>> : c \in RecordClients}
    /\ OPERATORI = <<>>
    /\ Healthy
    /\ Idle

NextRecords ==
    \/ get_clients
    \/ get_ordini_cliente_execute
    \/ get_ordini_cliente_row
    \/ get_ordini_cliente_return
    \/ get_articoli_ordine_execute
    \/ get_articoli_ordine_row
    \/ get_articoli_ordine_return
    \/ NextRequest

SpecRecords == InitRecords /\ [][NextRecords]_vars

\* C21: every text field of a returned record is a text, never null: the
\* backend's value when that is not empty, the empty string when it is NULL
\* or empty; the formatted number is a text, empty when the raw number is
\* NULL.
C21_TextFieldsNeverNull ==
    /\ ClientsReturned =>
          /\ Len(results) = Len(rows)
          /\ \A k \in 1..Len(results) :
                /\ results[k].ragsoc = TextOf(rows[k][1])
                /\ results[k].citta = TextOf(rows[k][2])
                /\ results[k].rifconto = TextOf(rows[k][3])
                /\ \A f \in {results[k].ragsoc, results[k].citta, results[k].rifconto} :
                      f.t = "str"
    /\ ArticoliReturned =>
          \A k \in 1..Len(results) :
              /\ results[k].pratica_numero = TextOf(rows[k][3])
              /\ results[k].codart = TextOf(rows[k][4])
              /\ results[k].desart = TextOf(rows[k][5])
              /\ \A f \in {results[k].pratica_numero, results[k].codart, results[k].desart} :
                    f.t = "str"
              /\ rows[k][1] = PyNone => results[k].numdoc = <<>>
    /\ OrdiniReturned =>
          \A k \in 1..Len(results) :
              LET first == rows[FirstRow(Str(results[k].numdoc_raw))]
              IN  /\ results[k].pratica_numero = TextOf(first[3])
                  /\ results[k].codart = TextOf(first[4])
                  /\ results[k].desart = TextOf(first[5])
                  /\ \A f \in {results[k].pratica_numero, results[k].codart,
                               results[k].desart} : f.t = "str"
                  /\ first[1] = PyNone => results[k].numdoc = <<>>

\* C21 witness: line items returned for a NULL case number and an empty
\* description, and for a case number and a description that are not empty
C21_Witness ==
    /\ ArticoliReturned
    /\ Len(results) = 2
    /\ \E j, k \in 1..2 :
          /\ rows[j][3] = PyNone /\ results[j].pratica_numero = PyStr(<<>>)
          /\ rows[j][5] = PyStr(<<>>) /\ results[j].desart = PyStr(<<>>)
          /\ results[k].pratica_numero = PyStr(<<"p", "1">>)
          /\ results[k].desart = PyStr(<<"d", "x">>)

----------------------------------------------------------------------------
(* The drill-down of an order: claim C22 *)

\* A summary the listing has just returned, and the outcome of the query of
\* get_articoli_ordine(codcf, str(numdoc_raw)) for it over the same backend
DrillDown(summary) == QueryArticoli(call.codcf, Str(summary.numdoc_raw))

\* C22 as stated: for every summary returned by get_ordini_cliente(c),
\* get_articoli_ordine(c, str(numdoc_raw)) returns exactly num_articoli
\* records, all of the summary's raw document number
C22_DrillDownMatchesCount ==
    OrdiniReturned =>
        \A k \in 1..Len(results) :
            /\ DrillDown(results[k]).exc = "none"
            /\ \A fetched \in DrillDown(results[k]).sets :
                  /\ Len(fetched) = results[k].num_articoli
                  /\ \A j \in 1..Len(fetched) : fetched[j][1] = results[k].numdoc_raw

----------------------------------------------------------------------------
(* The routes of the web front-end *)

\* The failure of an operation of the layer before any row is fetched: the
\* exception of get_configured_connection, or of cursor.execute
LayerFailure ==
    LET c == get_configured_connection
    IN  IF c.exc # "none" THEN c.exc
        ELSE IF server = "failing" THEN "pyodbc.Error"
        ELSE "none"

Returns(value) == [exc |-> "none", value |-> value]

Raises(name) == [exc |-> name, value |-> PyNone]

\* The outcomes of fetch_user_by_username(username) as the route sees them
FetchUserOutcomes(username) ==
    IF LayerFailure # "none" THEN {Raises(LayerFailure)}
    ELSE {Returns(value) : value \in QueryUser(username)}

\* The outcomes of get_cliente_nome(rifconto)
ClienteNomeOutcomes(rifconto) ==
    IF LayerFailure = "pyodbc.Error" THEN {Returns(PyNone)}
    ELSE IF LayerFailure # "none" THEN {Raises(LayerFailure)}
    ELSE {Returns(value) : value \in QueryClienteNome(rifconto)}

\* The outcomes of get_clients(...)
ClientsOutcomes(filtro_mastro, mostra_disattivati, pattern_ricerca, match_anywhere) ==
    IF LayerFailure # "none" THEN {Raises(LayerFailure)}
    ELSE {Returns([k \in 1..Len(fetched) |-> ClientRecord(ClientRow(piacon[fetched[k]]))]) :
             fetched \in QueryClients(RifcontoLike(filtro_mastro),
                                      PatternLike(pattern_ricerca, match_anywhere),
                                      mostra_disattivati)}

\* The outcomes of get_ordini_cliente(codcf)
OrdiniOutcomes(codcf) ==
    IF LayerFailure # "none" THEN {Raises(LayerFailure)}
    ELSE {Returns(DictValues(OrdiniDict(fetched, Len(fetched)))) :
             fetched \in QueryOrdini(codcf)}

\* The outcomes of get_articoli_ordine(codcf, numdoc_raw)
ArticoliOutcomes(codcf, numdoc_raw) ==
    IF LayerFailure # "none" THEN {Raises(LayerFailure)}
    ELSE IF QueryArticoli(codcf, numdoc_raw).exc # "none" THEN {Raises("pyodbc.Error")}
    ELSE {Returns([k \in 1..Len(fetched) |->
                      LineItem(fetched[k],
                               FormatNumdocArticoli(fetched[k][2], fetched[k][1]).s)]) :
             fetched \in QueryArticoli(codcf, numdoc_raw).sets}

\* redirect(url_for(endpoint))
Redirect(endpoint) == [kind |-> "redirect", target |-> endpoint, status |-> 302]

\* render_template(template, ...), status
Page(template, status) == [kind |-> "page", target |-> template, status |-> status]

\* An exception no handler of the route catches
ServerError == [kind |-> "error", target |-> "", status |-> 500]

\* Mutant: the decorator lets every request through
LoggedInAlways == TRUE

\* login_required's test:  session.get("user") is None  sends to the login page
LoggedIn == session.user # PyNone

\* Mutant: any operator record found opens the session
PasswordMatchesAny(record, password) == record # PyNone

\* user_record and password == user_record.get("Password")
PasswordMatches(record, password) == record # PyNone /\ password = record.Password

\* What the form of the login page and the query strings carry
FormUsernames == {<<>>, <<"a">>, <<" ", "a">>, <<"b">>}

FormPasswords == {<<>>, <<"p">>, <<"p", " ">>, <<"q">>}

SearchTexts == {<<>>, <<"a">>}

DocumentNumbers == {<<"4", "4", "1">>, <<"N", "o", "n", "e">>}

\* login: GET and POST of "/"
login ==
    \E method \in {"GET", "POST"}, form_username \in FormUsernames,
       form_password \in FormPasswords :
        LET username == Strip(form_username)
            password == Strip(form_password)
        IN  /\ request' = [NoRequest EXCEPT !.route = "login", !.method = method,
                                            !.username = form_username,
                                            !.password = form_password]
            /\ IF Truthy(session.user)
               THEN /\ response' = Redirect("main.dashboard")
                    /\ invoked' = <<>>
                    /\ user_record' = PyNone
                    /\ session' = session
               ELSE IF method = "POST" /\ username # <<>> /\ password # <<>>
               THEN /\ invoked' = <<"fetch_user_by_username">>
                    /\ \E outcome \in FetchUserOutcomes(username) :
                          /\ user_record' = outcome.value
                          /\ IF outcome.exc = "pyodbc.Error"
                             THEN /\ response' = Page("login.html", 503)
                                  /\ session' = session
                             ELSE IF outcome.exc # "none"
                             THEN /\ response' = ServerError
                                  /\ session' = session
                             ELSE IF PasswordMatches(outcome.value, password)
                             THEN /\ session' = [user |-> PyStr(outcome.value.Nome),
                                                 user_id |-> PyInt(outcome.value.ID),
                                                 user_fullname |-> PyStr(outcome.value.Nome)]
                                  /\ response' = Redirect("main.dashboard")
                             ELSE /\ response' = Page("login.html", 200)
                                  /\ session' = session
               ELSE /\ response' = Page("login.html", 200)
                    /\ invoked' = <<>>
                    /\ user_record' = PyNone
                    /\ session' = session
    /\ UNCHANGED <<env, pc, call, connection, sql, rows, src, idx, orders_dict, results, exc>>

\* dashboard
dashboard ==
    /\ request' = [NoRequest EXCEPT !.route = "dashboard"]
    /\ response' = IF LoggedIn THEN Page("dashboard.html", 200) ELSE Redirect("main.login")
    /\ invoked' = <<>>
    /\ user_record' = PyNone
    /\ UNCHANGED <<session, env, pc, call, connection, sql, rows, src, idx, orders_dict,
                   results, exc>>

\* vista_clienti: the clients of prefix "01", the search text of the query string
vista_clienti ==
    /\ \E q \in SearchTexts :
        LET search_text == Strip(q)
        IN  /\ request' = [NoRequest EXCEPT !.route = "vista_clienti", !.q = q]
            /\ IF ~LoggedIn
               THEN response' = Redirect("main.login") /\ invoked' = <<>>
               ELSE /\ invoked' = <<"get_clients">>
                    /\ \E outcome \in ClientsOutcomes(PyStr(<<"0", "1">>), FALSE,
                                         IF search_text # <<>> THEN PyStr(search_text)
                                         ELSE PyNone, TRUE) :
                          response' = IF outcome.exc \in {"none", "pyodbc.Error"}
                                      THEN Page("vista_clienti.html", 200)
                                      ELSE ServerError
    /\ user_record' = PyNone
    /\ UNCHANGED <<session, env, pc, call, connection, sql, rows, src, idx, orders_dict,
                   results, exc>>

\* vista_ordini: the name of the client, then its orders
vista_ordini ==
    /\ \E rifconto \in Rifcontos :
        /\ request' = [NoRequest EXCEPT !.route = "vista_ordini", !.rifconto = rifconto]
        /\ IF ~LoggedIn
           THEN response' = Redirect("main.login") /\ invoked' = <<>>
           ELSE \E nome \in ClienteNomeOutcomes(rifconto) :
                   IF nome.exc # "none"
                   THEN response' = ServerError /\ invoked' = <<"get_cliente_nome">>
                   ELSE /\ invoked' = <<"get_cliente_nome", "get_ordini_cliente">>
                        /\ \E outcome \in OrdiniOutcomes(rifconto) :
                              response' = IF outcome.exc \in {"none", "pyodbc.Error"}
                                          THEN Page("vista_ordini.html", 200)
                                          ELSE ServerError
    /\ user_record' = PyNone
    /\ UNCHANGED <<session, env, pc, call, connection, sql, rows, src, idx, orders_dict,
                   results, exc>>

\* articoli_ordine: the name of the client, then the lines of the order
articoli_ordine ==
    /\ \E rifconto \in Rifcontos, numdoc_raw \in DocumentNumbers :
        /\ request' = [NoRequest EXCEPT !.route = "articoli_ordine", !.rifconto = rifconto,
                                        !.numdoc_raw = numdoc_raw]
        /\ IF ~LoggedIn
           THEN response' = Redirect("main.login") /\ invoked' = <<>>
           ELSE \E nome \in ClienteNomeOutcomes(rifconto) :
                   IF nome.exc # "none"
                   THEN response' = ServerError /\ invoked' = <<"get_cliente_nome">>
                   ELSE /\ invoked' = <<"get_cliente_nome", "get_articoli_ordine">>
                        /\ \E outcome \in ArticoliOutcomes(rifconto, numdoc_raw) :
                              response' = IF outcome.exc \in {"none", "pyodbc.Error"}
                                          THEN Page("articoli_ordine.html", 200)
                                          ELSE ServerError
    /\ user_record' = PyNone
    /\ UNCHANGED <<session, env, pc, call, connection, sql, rows, src, idx, orders_dict,
                   results, exc>>

\* logout
logout ==
    /\ request' = [NoRequest EXCEPT !.route = "logout"]
    /\ response' = Redirect("main.login")
    /\ session' = IF LoggedIn THEN EmptySession ELSE session
    /\ invoked' = <<>>
    /\ user_record' = PyNone
    /\ UNCHANGED <<env, pc, call, connection, sql, rows, src, idx, orders_dict, results, exc>>

\* The server goes down, starts failing or comes back between two requests
server_changes ==
    /\ server' \in {"up", "down", "failing"} \ {server}
    /\ UNCHANGED <<schema, tabfat02, piacon, OPERATORI, Config, app_config, drivers>>
    /\ UNCHANGED <<web, pc, call, connection, sql, rows, src, idx, orders_dict, results, exc>>

\* The operator tables: none, one operator, two operators, two operators
\* whose names differ by a trailing blank only (both equal to 'a' for the
\* backend)
OperatorTables ==
    {<<>>,
     <<[ID |-> 1, Nome |-> <<"a">>, PASSWORD2005 |-> <<"p">>]>>,
     <<[ID |-> 1, Nome |-> <<"a">>, PASSWORD2005 |-> <<"p">>],
       [ID |-> 2, Nome |-> <<"b">>, PASSWORD2005 |-> <<"q">>]>>,
     <<[ID |-> 1, Nome |-> <<"a">>, PASSWORD2005 |-> <<"p">>],
       [ID |-> 2, Nome |-> <<"a", " ">>, PASSWORD2005 |-> <<"q">>]>>}

InitRoutes ==
    /\ schema = [NUMDOC |-> "int", Datdoc |-> "date"]
    /\ tabfat02 = <<Line(PyInt(441), PyDate(2024), LineVariants[1]),
                    Line(PyNone, PyDate(2023), LineVariants[2])>>
    /\ piacon = <<ClientOf(1), ClientOf(7)>>
    /\ OPERATORI \in OperatorTables
    /\ Config = DefaultConfig
    /\ app_config = FromObject(DefaultConfig)
    /\ drivers \in {{}, {PREFERRED_DRIVERS[1]}}
    /\ server \in {"up", "down", "failing"}
    /\ Idle

NextRoutes ==
    \/ login
    \/ dashboard
    \/ vista_clienti
    \/ vista_ordini
    \/ articoli_ordine
    \/ logout
    \/ server_changes

SpecRoutes == InitRoutes /\ [][NextRoutes]_vars

----------------------------------------------------------------------------
(* Protected routes and the session: claims C23, C24 *)

ProtectedRoutes == {"dashboard", "vista_clienti", "vista_ordini", "articoli_ordine", "logout"}

\* A step that answers a request (the other steps change the server)
Answering == server' = server

\* C23: a request to a protected route made while the session holds no user
\* is answered with a redirect to the login page and invokes no operation of
\* the data-access layer.
C23_ProtectedRoutesRedirect ==
    [][(Answering /\ session.user = PyNone /\ request'.route \in ProtectedRoutes) =>
          /\ response' = Redirect("main.login")
          /\ invoked' = <<>>
    ]_vars

\* C23 witness: with a reachable backend and an operator on file, the lines
\* of an order were asked for without a user in the session, and the answer
\* is the redirect to the login page with no data-access operation invoked
C23_Witness ==
    /\ request.route = "articoli_ordine"
    /\ session.user = PyNone
    /\ response = Redirect("main.login")
    /\ invoked = <<>>
    /\ OPERATORI # <<>>
    /\ server = "up"
    /\ drivers # {}

\* The login POST of the step is a valid attempt: nobody logged in, both
\* fields filled in
C24_Attempt ==
    /\ request'.route = "login"
    /\ request'.method = "POST"
    /\ ~Truthy(session.user)
    /\ Strip(request'.username) # <<>>
    /\ Strip(request'.password) # <<>>

\* The attempt found an operator record whose stored password is the one
\* submitted
C24_Success ==
    /\ C24_Attempt
    /\ user_record' # PyNone
    /\ user_record'.Password = Strip(request'.password)

\* The session holds a user only if it is the name of an operator
C24_UserIsOperator ==
    session.user # PyNone =>
        /\ \E k \in 1..Len(OPERATORI) : session.user = PyStr(OPERATORI[k].Nome)
        /\ session.user_fullname = session.user

====
